---------------------------- MODULE Spec2Model ----------------------------
(***************************************************************************)
(* A model of the Gemini prompt builder (src/gemini_prompt_builder_app.py  *)
(* and src/ollama_integration.py).                                         *)
(*                                                                         *)
(* Python str values are TLA+ strings, handled character by character with *)
(* Len, SubSeq and \o.  A Python dict is the sequence of its items in      *)
(* definition order (dicts keep insertion order), each item a record with  *)
(* its key.  An Optional[str] is a tuple: <<>> is None, <<s>> is the       *)
(* string s.                                                               *)
(***************************************************************************)
EXTENDS Integers, Sequences, FiniteSets, TLC

VARIABLES
  pc,        \* "call": the operation is about to run; "waiting": it waits for
             \* the reply to an HTTP request; "client": it waits for
             \* ollama.list(); "done": it returned
  op,        \* the operation under call
  args,      \* its arguments
  ret,       \* what it returned or raised
  returned,  \* every value the operation has returned so far
  prompt_history,  \* st.session_state.prompt_history
  requests_sent,   \* the HTTP requests made so far, in order
  reply            \* what the last HTTP request came back with

vars == <<pc, op, args, ret, returned, prompt_history, requests_sent, reply>>

---------------------------------------------------------------------------
\* The static catalogs.

\* VERSION (line 30).
VERSION == "4.1.0"

\* The camera bodies dictionary (lines 36-139), in definition order.
CAMERA_BODIES ==
  <<
     [key |-> "Canon EOS R5 Mark II",
      mount |-> "Canon RF",
      sensor |-> "Full-frame 45MP",
      description |-> "Professional mirrorless flagship",
      tier |-> "flagship",
      brand |-> "Canon"],
     [key |-> "Canon EOS R5",
      mount |-> "Canon RF",
      sensor |-> "Full-frame 45MP",
      description |-> "High-resolution hybrid camera",
      tier |-> "professional",
      brand |-> "Canon"],
     [key |-> "Canon EOS R6 Mark II",
      mount |-> "Canon RF",
      sensor |-> "Full-frame 24MP",
      description |-> "Versatile full-frame mirrorless",
      tier |-> "professional",
      brand |-> "Canon"],
     [key |-> "Canon EOS R3",
      mount |-> "Canon RF",
      sensor |-> "Full-frame 24MP stacked",
      description |-> "Professional sports camera",
      tier |-> "flagship",
      brand |-> "Canon"],
     [key |-> "Sony A1",
      mount |-> "Sony E",
      sensor |-> "Full-frame 50MP stacked",
      description |-> "Professional flagship mirrorless",
      tier |-> "flagship",
      brand |-> "Sony"],
     [key |-> "Sony A7R V",
      mount |-> "Sony E",
      sensor |-> "Full-frame 61MP",
      description |-> "High-resolution specialist",
      tier |-> "professional",
      brand |-> "Sony"],
     [key |-> "Sony A7 IV",
      mount |-> "Sony E",
      sensor |-> "Full-frame 33MP",
      description |-> "Versatile hybrid camera",
      tier |-> "prosumer",
      brand |-> "Sony"],
     [key |-> "Nikon Z9",
      mount |-> "Nikon Z",
      sensor |-> "Full-frame 45MP stacked",
      description |-> "Professional flagship",
      tier |-> "flagship",
      brand |-> "Nikon"],
     [key |-> "Nikon Z8",
      mount |-> "Nikon Z",
      sensor |-> "Full-frame 45MP stacked",
      description |-> "Compact professional body",
      tier |-> "professional",
      brand |-> "Nikon"],
     [key |-> "Fujifilm X-H2S",
      mount |-> "Fujifilm X",
      sensor |-> "APS-C 26MP stacked",
      description |-> "Professional sports camera",
      tier |-> "professional",
      brand |-> "Fujifilm"],
     [key |-> "Fujifilm GFX 100 II",
      mount |-> "Fujifilm G",
      sensor |-> "Medium format 102MP",
      description |-> "Medium format powerhouse",
      tier |-> "flagship",
      brand |-> "Fujifilm"],
     [key |-> "Leica SL3",
      mount |-> "Leica L",
      sensor |-> "Full-frame 60MP",
      description |-> "Premium professional camera",
      tier |-> "flagship",
      brand |-> "Leica"],
     [key |-> "Hasselblad X2D 100C",
      mount |-> "Hasselblad X",
      sensor |-> "Medium format 100MP",
      description |-> "Ultimate medium format",
      tier |-> "flagship",
      brand |-> "Hasselblad"]
  >>

\* The lens dictionary; focal_length, max_aperture and use_case are read by no function (lines 143-307), in definition order.
LENS_LIBRARY ==
  <<
     [key |-> "16mm f/2.8",
      type |-> "ultra-wide",
      description |-> "ultra-wide 16mm f/2.8 lens for dramatic environmental perspective",
      characteristics |-> "extreme field of view with minimal distortion"],
     [key |-> "24mm f/1.4",
      type |-> "wide",
      description |-> "wide-angle 24mm f/1.4 lens with excellent low-light capability",
      characteristics |-> "sharp across the frame with beautiful bokeh"],
     [key |-> "24mm f/2.8",
      type |-> "wide",
      description |-> "compact 24mm f/2.8 wide-angle lens",
      characteristics |-> "lightweight and portable with good sharpness"],
     [key |-> "35mm f/1.4",
      type |-> "wide-normal",
      description |-> "versatile 35mm f/1.4 lens with natural perspective",
      characteristics |-> "excellent for storytelling with shallow depth of field"],
     [key |-> "35mm f/1.8",
      type |-> "wide-normal",
      description |-> "compact 35mm f/1.8 lens for everyday photography",
      characteristics |-> "lightweight with natural field of view"],
     [key |-> "35mm f/2",
      type |-> "wide-normal",
      description |-> "35mm f/2 lens balancing size and performance",
      characteristics |-> "compact and sharp with pleasant rendering"],
     [key |-> "50mm f/1.2",
      type |-> "standard",
      description |-> "premium 50mm f/1.2 lens with ultra-shallow depth of field",
      characteristics |-> "exceptional bokeh and subject isolation"],
     [key |-> "50mm f/1.4",
      type |-> "standard",
      description |-> "classic 50mm f/1.4 standard lens with natural perspective",
      characteristics |-> "versatile focal length with excellent low-light performance"],
     [key |-> "50mm f/1.8",
      type |-> "standard",
      description |-> "affordable 50mm f/1.8 standard lens",
      characteristics |-> "sharp and lightweight at all apertures"],
     [key |-> "85mm f/1.2",
      type |-> "portrait",
      description |-> "premium 85mm f/1.2 portrait lens with legendary bokeh",
      characteristics |-> "creamy bokeh and exceptional subject separation"],
     [key |-> "85mm f/1.4",
      type |-> "portrait",
      description |-> "professional 85mm f/1.4 portrait lens",
      characteristics |-> "beautiful compression and smooth out-of-focus rendering"],
     [key |-> "85mm f/1.8",
      type |-> "portrait",
      description |-> "compact 85mm f/1.8 portrait lens",
      characteristics |-> "sharp with pleasant bokeh at accessible price"],
     [key |-> "105mm f/1.4",
      type |-> "portrait-tele",
      description |-> "unique 105mm f/1.4 portrait lens with extreme bokeh",
      characteristics |-> "exceptional subject isolation and dreamy bokeh"],
     [key |-> "135mm f/1.8",
      type |-> "telephoto-portrait",
      description |-> "telephoto 135mm f/1.8 lens with strong compression",
      characteristics |-> "strong perspective compression and ultra-shallow DOF"],
     [key |-> "135mm f/2",
      type |-> "telephoto-portrait",
      description |-> "classic 135mm f/2 telephoto portrait lens",
      characteristics |-> "flattering compression with smooth bokeh"],
     [key |-> "90mm f/2.8 Macro",
      type |-> "macro",
      description |-> "90mm f/2.8 1:1 macro lens for extreme detail",
      characteristics |-> "1:1 magnification with exceptional sharpness"],
     [key |-> "100mm f/2.8 Macro",
      type |-> "macro",
      description |-> "100mm f/2.8 1:1 macro lens with image stabilization",
      characteristics |-> "true 1:1 reproduction with superb micro-contrast"],
     [key |-> "200mm f/2",
      type |-> "telephoto",
      description |-> "professional 200mm f/2 telephoto lens",
      characteristics |-> "extreme compression and background isolation"],
     [key |-> "70-200mm f/2.8",
      type |-> "telephoto-zoom",
      description |-> "professional 70-200mm f/2.8 zoom lens",
      characteristics |-> "versatile range with constant f/2.8 aperture"]
  >>

\* TextureManager.TEXTURE_LIBRARY (lines 314-416), in definition order.
TEXTURE_LIBRARY ==
  <<
     [key |-> "skin_realistic",
      description |-> "natural skin texture with visible pores, fine lines, and individual hair strands",
      category |-> "organic",
      intensity |-> "high",
      compatible_with |-> <<"fabric_detailed", "environmental_rich">>],
     [key |-> "skin_pores",
      description |-> "visible skin pores and natural skin texture detail",
      category |-> "organic",
      intensity |-> "medium",
      compatible_with |-> <<"skin_realistic", "fabric_detailed">>],
     [key |-> "hair_strands",
      description |-> "individual hair strands with natural flyaways and texture",
      category |-> "organic",
      intensity |-> "high",
      compatible_with |-> <<"skin_realistic", "fabric_detailed">>],
     [key |-> "fabric_detailed",
      description |-> "realistic fabric weave, natural folds, and authentic material reflectance",
      category |-> "material",
      intensity |-> "high",
      compatible_with |-> <<"skin_realistic", "environmental_rich">>],
     [key |-> "fabric_weave",
      description |-> "visible fabric weave patterns and textile structure",
      category |-> "material",
      intensity |-> "medium",
      compatible_with |-> <<"fabric_detailed", "sharp_micro">>],
     [key |-> "material_reflectance",
      description |-> "accurate material reflectance and surface properties",
      category |-> "material",
      intensity |-> "medium",
      compatible_with |-> <<"fabric_detailed", "environmental_rich">>],
     [key |-> "environmental_rich",
      description |-> "atmospheric depth with fine surface details and accurate material properties",
      category |-> "environment",
      intensity |-> "high",
      compatible_with |-> <<"skin_realistic", "fabric_detailed", "weathered_aged">>],
     [key |-> "atmospheric_depth",
      description |-> "atmospheric haze and depth perception with distance falloff",
      category |-> "environment",
      intensity |-> "medium",
      compatible_with |-> <<"environmental_rich", "sharp_micro">>],
     [key |-> "dust_particles",
      description |-> "visible dust particles and air particulates in lighting",
      category |-> "environment",
      intensity |-> "low",
      compatible_with |-> <<"environmental_rich", "atmospheric_depth">>],
     [key |-> "sharp_micro",
      description |-> "crisp high-frequency texture detail from foreground to background",
      category |-> "technical",
      intensity |-> "high",
      compatible_with |-> <<"fabric_weave", "weathered_aged", "macro_detail">>],
     [key |-> "macro_detail",
      description |-> "extreme close-up detail with microscopic surface features",
      category |-> "technical",
      intensity |-> "very_high",
      compatible_with |-> <<"sharp_micro", "material_reflectance">>],
     [key |-> "weathered_aged",
      description |-> "aged surfaces with wear patterns and patina of time",
      category |-> "aging",
      intensity |-> "medium",
      compatible_with |-> <<"environmental_rich", "sharp_micro">>],
     [key |-> "wear_patterns",
      description |-> "natural wear patterns and use marks on surfaces",
      category |-> "aging",
      intensity |-> "medium",
      compatible_with |-> <<"weathered_aged", "environmental_rich">>],
     [key |-> "natural_imperfections",
      description |-> "authentic natural imperfections and organic irregularities",
      category |-> "realism",
      intensity |-> "medium",
      compatible_with |-> <<"skin_realistic", "weathered_aged">>],
     [key |-> "unretouched_authentic",
      description |-> "unretouched authentic appearance without digital smoothing",
      category |-> "realism",
      intensity |-> "high",
      compatible_with |-> <<"skin_realistic", "natural_imperfections">>]
  >>

\* The realism anchors (lines 503-524), in definition order.
REALISM_ANCHORS ==
  <<
     [key |-> "standard",
      value |-> "This should look like an authentic photograph taken with a professional DSLR camera, with natural lighting physics, realistic material properties, and lifelike detail."],
     [key |-> "strict_no_cgi",
      value |-> "Render as authentic photography with zero CGI, plastic, or airbrushed effects. Maintain natural skin texture, visible pores, real fabric weave, and organic imperfections. Avoid any artificial smoothing, digital retouching, or computer-generated appearance. This must look like it was captured with a real camera sensor."],
     [key |-> "natural_unretouched",
      value |-> "Completely natural and unretouched photography with authentic textures. No digital smoothing, no plastic skin, no airbrushing, no CGI elements. Real camera optics, natural lighting physics, genuine material properties."],
     [key |-> "photojournalism",
      value |-> "Documentary-style authentic photography with journalistic integrity. No manipulation, no artificial enhancement, true-to-life representation with all natural imperfections and organic characteristics preserved."]
  >>

\* The lighting dictionary (lines 528-539), in definition order.
LIGHTING ==
  <<
     [key |-> "Soft Natural",
      value |-> "soft, warm natural daylight streaming through a nearby window, creating gentle shadows with a natural falloff"],
     [key |-> "Golden Hour",
      value |-> "golden hour sunlight bathing the scene in warm amber tones with soft ambient bounce light"],
     [key |-> "Studio Professional",
      value |-> "professional three-point studio lighting with soft key light, subtle fill, and rim lighting for depth"],
     [key |-> "Dramatic Side",
      value |-> "high-contrast dramatic lighting from the side, casting deep, moody shadows"],
     [key |-> "Overcast Diffused",
      value |-> "evenly diffused daylight from an overcast sky, eliminating harsh shadows"],
     [key |-> "Backlit Atmospheric",
      value |-> "strong backlighting creating a glowing rim around the subject with atmospheric depth"],
     [key |-> "Night Urban",
      value |-> "neon lights in blues and pinks reflecting off surfaces, creating a moody urban atmosphere"],
     [key |-> "Window Side",
      value |-> "soft window light from the side, creating dimensional modeling with gentle shadows"],
     [key |-> "Rembrandt",
      value |-> "classic Rembrandt lighting with triangular highlight on shadow-side cheek"],
     [key |-> "Butterfly",
      value |-> "butterfly lighting from above creating symmetrical shadow under nose"]
  >>

\* The composition dictionary (lines 543-551), in definition order.
COMPOSITION ==
  <<
     [key |-> "Rule of Thirds",
      value |-> "composed using the rule of thirds, with the main subject positioned off-center for dynamic visual interest"],
     [key |-> "Centered Symmetrical",
      value |-> "framed with perfect symmetry, the subject centered for balance and powerful impact"],
     [key |-> "Leading Lines",
      value |-> "incorporating strong leading lines that naturally guide the viewer's eye toward the main subject"],
     [key |-> "Negative Space",
      value |-> "utilizing generous negative space around the subject for a minimalist, focused composition"],
     [key |-> "Environmental Context",
      value |-> "placing the subject within their environment, showing context and telling a broader visual story"],
     [key |-> "Dutch Angle",
      value |-> "shot with a tilted Dutch angle for dramatic tension"],
     [key |-> "Frame in Frame",
      value |-> "using natural framing elements within the composition"]
  >>

\* The quality dictionary (lines 553-560), in definition order.
QUALITY ==
  <<
     [key |-> "Photorealistic 8K",
      value |-> "ultra-realistic with physically-based rendering, accurate global illumination, and 8K detail"],
     [key |-> "Film Analog - Portra 400",
      value |-> "shot on Kodak Portra 400 film stock, featuring subtle organic grain and natural color response"],
     [key |-> "Film Analog - Tri-X 400",
      value |-> "captured on Kodak Tri-X 400 black and white film with classic grain structure"],
     [key |-> "Editorial Commercial",
      value |-> "high-end editorial quality with precise color grading and commercial-grade polish"],
     [key |-> "Raw DSLR",
      value |-> "unprocessed DSLR aesthetic with natural dynamic range and authentic sensor characteristics"],
     [key |-> "Large Format Film",
      value |-> "captured on large format 4x5 film with exceptional detail and tonal range"]
  >>

\* The color dictionary (lines 562-569), in definition order.
COLOR ==
  <<
     [key |-> "Neutral Accurate",
      value |-> "with neutral, true-to-life color tones maintaining accurate color reproduction"],
     [key |-> "Warm Golden",
      value |-> "with a warm color grade emphasizing golden and amber tones throughout"],
     [key |-> "Cool Cinematic",
      value |-> "with cool cinematic color temperature featuring blue and teal hues"],
     [key |-> "Muted Earthy",
      value |-> "with a desaturated, muted palette of subtle earth tones"],
     [key |-> "Vibrant Saturated",
      value |-> "with enhanced saturation for punchy, vivid colors while maintaining photorealistic quality"],
     [key |-> "Monochrome B&W",
      value |-> "rendered in rich black and white with deep shadows and bright highlights"]
  >>

\* The mood dictionary (lines 571-578), in definition order.
MOOD ==
  <<
     [key |-> "Serene Peaceful",
      value |-> "The overall mood is serene and calm, creating a peaceful, contemplative atmosphere"],
     [key |-> "Confident Powerful",
      value |-> "The atmosphere conveys strength and self-assurance with subtle but commanding intensity"],
     [key |-> "Intimate Warm",
      value |-> "Creating an intimate, warm emotional connection with soft, inviting energy"],
     [key |-> "Mysterious Dramatic",
      value |-> "Establishing a mysterious, dramatic atmosphere with rich shadows and intrigue"],
     [key |-> "Energetic Dynamic",
      value |-> "Capturing dynamic energy with a sense of vibrant motion and vitality"],
     [key |-> "Contemplative Quiet",
      value |-> "Evoking a thoughtful, introspective quiet moment of reflection"]
  >>

\* The aspect ratio dictionary (lines 580-587), in definition order.
ASPECT_RATIO ==
  <<
     [key |-> "Standard (3:2)",
      value |-> "3:2"],
     [key |-> "Square (1:1)",
      value |-> "1:1"],
     [key |-> "Portrait (2:3)",
      value |-> "2:3"],
     [key |-> "Widescreen (16:9)",
      value |-> "16:9"],
     [key |-> "Portrait Wide (9:16)",
      value |-> "9:16"],
     [key |-> "Cinema (2.39:1)",
      value |-> "2.39:1"]
  >>

\* The preset templates (lines 591-652), in definition order.
PRESETS ==
  <<
     [key |-> "Portrait - Studio Canon R5",
      mode |-> "Portrait",
      subject |-> "professional model with natural expression",
      setting |-> "clean studio environment",
      camera_body |-> "Canon EOS R5 Mark II",
      lens |-> "85mm f/1.4",
      lighting |-> "Studio Professional",
      composition |-> "Rule of Thirds",
      texture_primary |-> "skin_realistic",
      texture_secondary |-> "fabric_detailed",
      quality |-> "Photorealistic 8K",
      color |-> "Neutral Accurate",
      mood |-> "Confident Powerful",
      realism_mode |-> "strict_no_cgi"],
     [key |-> "Editorial - Fashion Sony A1",
      mode |-> "Editorial",
      subject |-> "fashion model in designer clothing",
      setting |-> "minimalist urban backdrop",
      camera_body |-> "Sony A1",
      lens |-> "135mm f/1.8",
      lighting |-> "Dramatic Side",
      composition |-> "Negative Space",
      texture_primary |-> "fabric_detailed",
      texture_secondary |-> "skin_realistic",
      quality |-> "Editorial Commercial",
      color |-> "Cool Cinematic",
      mood |-> "Confident Powerful",
      realism_mode |-> "natural_unretouched"],
     [key |-> "Portrait - Natural 35mm",
      mode |-> "Portrait",
      subject |-> "candid portrait with authentic expression",
      setting |-> "natural indoor environment near window",
      camera_body |-> "Canon EOS R6 Mark II",
      lens |-> "35mm f/1.4",
      lighting |-> "Window Side",
      composition |-> "Environmental Context",
      texture_primary |-> "skin_realistic",
      texture_secondary |-> "natural_imperfections",
      quality |-> "Raw DSLR",
      color |-> "Warm Golden",
      mood |-> "Intimate Warm",
      realism_mode |-> "photojournalism"],
     [key |-> "Product - Macro Detail",
      mode |-> "Product",
      subject |-> "artisan product with intricate details",
      setting |-> "neutral backdrop with subtle gradient",
      camera_body |-> "Fujifilm GFX 100 II",
      lens |-> "100mm f/2.8 Macro",
      lighting |-> "Studio Professional",
      composition |-> "Centered Symmetrical",
      texture_primary |-> "macro_detail",
      texture_secondary |-> "sharp_micro",
      quality |-> "Photorealistic 8K",
      color |-> "Neutral Accurate",
      mood |-> "Serene Peaceful",
      realism_mode |-> "standard"]
  >>

---------------------------------------------------------------------------
\* Python values.

\* None and a str, as Optional[str].
None == <<>>

Some(s) == <<s>>

\* Python's truth value of an Optional[str]: None and "" are false.
Truthy(o) == o # None /\ o[1] # ""

\* dict.keys(), k in d, d[k]; d[k] of a missing key raises KeyError, which the
\* callers below test with HasKey before they read.
Keys(d) == {d[i].key : i \in DOMAIN d}

HasKey(d, k) == k \in Keys(d)

Get(d, k) == d[CHOOSE i \in DOMAIN d : d[i].key = k]

\* sep.join(parts).
RECURSIVE Join(_, _)
Join(parts, sep) ==
  IF parts = <<>> THEN ""
  ELSE IF Len(parts) = 1 THEN parts[1]
  ELSE parts[1] \o sep \o Join(Tail(parts), sep)

\* s.startswith(x), s.endswith(x), x in s.
StartsWith(s, x) == Len(x) <= Len(s) /\ SubSeq(s, 1, Len(x)) = x

EndsWith(s, x) == Len(x) <= Len(s) /\ SubSeq(s, Len(s) - Len(x) + 1, Len(s)) = x

Contains(s, x) ==
  \E i \in 1..(Len(s) - Len(x) + 1) : SubSeq(s, i, i + Len(x) - 1) = x

\* The first n items of a list: l[:n].
Take(l, n) == SubSeq(l, 1, IF Len(l) < n THEN Len(l) ELSE n)

\* x in l, for a list l.
InList(x, l) == \E i \in DOMAIN l : l[i] = x

---------------------------------------------------------------------------
\* TextureManager.

\* A variant of get_compatible_textures that reads the relation in both
\* directions.
get_compatible_textures_Symmetric(texture_key) ==
  IF ~HasKey(TEXTURE_LIBRARY, texture_key) THEN <<>>
  ELSE Get(TEXTURE_LIBRARY, texture_key).compatible_with
         \o SelectSeq([i \in DOMAIN TEXTURE_LIBRARY |-> TEXTURE_LIBRARY[i].key],
                      LAMBDA k : InList(texture_key, Get(TEXTURE_LIBRARY, k).compatible_with))

\* get_compatible_textures(texture_key).
get_compatible_textures(texture_key) ==
  IF ~HasKey(TEXTURE_LIBRARY, texture_key) THEN <<>>
  ELSE Get(TEXTURE_LIBRARY, texture_key).compatible_with

\* A variant of UnknownPrimaryPhrase: no fallback text.
UnknownPrimaryPhrase_Empty == ""

\* What combine_textures returns for a primary key that is not in the library
\* (line 451).
UnknownPrimaryPhrase == "realistic natural texture detail"

\* A variant of PrimaryDescription that yields the key.
PrimaryDescription_Key(primary) == primary

\* primary_desc (line 453), which combine_textures returns alone at lines 456
\* and 462.
PrimaryDescription(primary) == Get(TEXTURE_LIBRARY, primary).description

\* A variant of JoinDescriptions with the two connectives exchanged.
JoinDescriptions_Swapped(primary, secondary) ==
  LET primary_desc   == Get(TEXTURE_LIBRARY, primary).description
      secondary_desc == Get(TEXTURE_LIBRARY, secondary).description
      primary_cat    == Get(TEXTURE_LIBRARY, primary).category
      secondary_cat  == Get(TEXTURE_LIBRARY, secondary).category
  IN IF primary_cat = secondary_cat
     THEN primary_desc \o ", complemented by " \o secondary_desc
     ELSE primary_desc \o ", additionally " \o secondary_desc

\* The two joins of combine_textures (lines 464-475), by category equality.
JoinDescriptions(primary, secondary) ==
  LET primary_desc   == PrimaryDescription(primary)
      secondary_desc == Get(TEXTURE_LIBRARY, secondary).description
      primary_cat    == Get(TEXTURE_LIBRARY, primary).category
      secondary_cat  == Get(TEXTURE_LIBRARY, secondary).category
  IN IF primary_cat = secondary_cat
     THEN primary_desc \o ", additionally " \o secondary_desc
     ELSE primary_desc \o ", complemented by " \o secondary_desc

\* A variant of combine_textures without the compatibility check.
combine_textures_NoCompatibilityCheck(primary, secondary) ==
  IF ~HasKey(TEXTURE_LIBRARY, primary) THEN UnknownPrimaryPhrase
  ELSE IF ~Truthy(secondary) \/ ~HasKey(TEXTURE_LIBRARY, secondary[1])
    THEN PrimaryDescription(primary)
  ELSE JoinDescriptions(primary, secondary[1])

\* combine_textures(primary, secondary=None): secondary is an Optional[str].
combine_textures(primary, secondary) ==
  IF ~HasKey(TEXTURE_LIBRARY, primary) THEN UnknownPrimaryPhrase
  ELSE IF ~Truthy(secondary) \/ ~HasKey(TEXTURE_LIBRARY, secondary[1])
    THEN PrimaryDescription(primary)
  ELSE IF ~InList(secondary[1], get_compatible_textures(primary))
    THEN PrimaryDescription(primary)
  ELSE JoinDescriptions(primary, secondary[1])

\* The dict `categories` of get_all_textures_combined after the first n items
\* of the library: category -> list of descriptions, in first-seen order.
RECURSIVE CategoriesUpTo(_)
CategoriesUpTo(n) ==
  IF n = 0 THEN <<>>
  ELSE
    LET categories == CategoriesUpTo(n - 1)
        value      == TEXTURE_LIBRARY[n]
        cat        == value.category
    IN IF ~HasKey(categories, cat)
       THEN Append(categories, [key |-> cat, descs |-> <<value.description>>])
       ELSE [i \in DOMAIN categories |->
               IF categories[i].key = cat
               THEN [categories[i] EXCEPT !.descs = Append(@, value.description)]
               ELSE categories[i]]

\* A variant of PartsUpTo that takes three descriptions of each category.
RECURSIVE PartsUpTo_Three(_, _)
PartsUpTo_Three(categories, n) ==
  IF n = 0 THEN <<>>
  ELSE IF categories[n].key = "realism" THEN PartsUpTo_Three(categories, n - 1)
  ELSE PartsUpTo_Three(categories, n - 1) \o Take(categories[n].descs, 3)

\* The list `parts` after the first n categories: the first two descriptions
\* of each category but "realism".
RECURSIVE PartsUpTo(_, _)
PartsUpTo(categories, n) ==
  IF n = 0 THEN <<>>
  ELSE IF categories[n].key = "realism" THEN PartsUpTo(categories, n - 1)
  ELSE PartsUpTo(categories, n - 1) \o Take(categories[n].descs, 2)

\* get_all_textures_combined().
get_all_textures_combined ==
  LET categories == CategoriesUpTo(Len(TEXTURE_LIBRARY))
      parts      == PartsUpTo(categories, Len(categories))
      all        == IF HasKey(categories, "realism")
                    THEN parts \o Get(categories, "realism").descs
                    ELSE parts
  IN Join(all, ", ")

---------------------------------------------------------------------------
\* Formatting.

Digits == <<"0", "1", "2", "3", "4", "5", "6", "7", "8", "9">>

\* str(n) of a natural number, as an f-string renders an int.
RECURSIVE NatToStr(_)
NatToStr(n) ==
  IF n < 10 THEN Digits[n + 1]
  ELSE NatToStr(n \div 10) \o Digits[(n % 10) + 1]

\* str(n) of an int.
IntToStr(n) == IF n < 0 THEN "-" \o NatToStr(0 - n) ELSE NatToStr(n)

---------------------------------------------------------------------------
\* Text: characters, str methods and the regular expressions of the utility
\* functions.

\* The i-th character of s.
CharAt(s, i) == SubSeq(s, i, i)

\* \s of module re and the characters str.strip() removes, within ASCII.
SpaceChars == {" ", "\t", "\n", "\r", "\f"}

IsSpace(c) == c \in SpaceChars

\* The class [.,!?;:] of grammar_cleanup.
PunctChars == {".", ",", "!", "?", ";", ":"}

IsPunct(c) == c \in PunctChars

UpperCase ==
  << "A", "B", "C", "D", "E", "F", "G", "H", "I", "J", "K", "L", "M",
     "N", "O", "P", "Q", "R", "S", "T", "U", "V", "W", "X", "Y", "Z" >>

LowerCase ==
  << "a", "b", "c", "d", "e", "f", "g", "h", "i", "j", "k", "l", "m",
     "n", "o", "p", "q", "r", "s", "t", "u", "v", "w", "x", "y", "z" >>

\* The class [A-Za-z] of grammar_cleanup.
LetterChars == {UpperCase[i] : i \in 1..26} \cup {LowerCase[i] : i \in 1..26}

IsLetter(c) == c \in LetterChars

\* str.lower() of one character, and of the characters lo..hi of s.
LowerChar(c) ==
  IF \E i \in 1..26 : UpperCase[i] = c
  THEN LowerCase[CHOOSE i \in 1..26 : UpperCase[i] = c]
  ELSE c

RECURSIVE LowerRange(_, _, _)
LowerRange(s, lo, hi) ==
  IF lo > hi THEN ""
  ELSE IF lo = hi THEN LowerChar(CharAt(s, lo))
  ELSE LET mid == (lo + hi) \div 2
       IN LowerRange(s, lo, mid) \o LowerRange(s, mid + 1, hi)

\* s.lower().
Lower(s) == LowerRange(s, 1, Len(s))

\* s.strip(): s without its leading and trailing whitespace.
Strip(s) ==
  IF \A i \in 1..Len(s) : IsSpace(CharAt(s, i)) THEN ""
  ELSE LET first == CHOOSE i \in 1..Len(s) :
                      /\ ~IsSpace(CharAt(s, i))
                      /\ \A j \in 1..(i - 1) : IsSpace(CharAt(s, j))
           last  == CHOOSE i \in 1..Len(s) :
                      /\ ~IsSpace(CharAt(s, i))
                      /\ \A j \in (i + 1)..Len(s) : IsSpace(CharAt(s, j))
       IN SubSeq(s, first, last)

\* s.rstrip('.'): s without its trailing full stops.
RStripDots(s) ==
  IF \A i \in 1..Len(s) : CharAt(s, i) = "." THEN ""
  ELSE LET last == CHOOSE i \in 1..Len(s) :
                     /\ CharAt(s, i) # "."
                     /\ \A j \in (i + 1)..Len(s) : CharAt(s, j) = "."
       IN SubSeq(s, 1, last)

\* The limit of sanitize_text (line 659) and the default min_length of
\* validate_input (line 670).
MaxTextLength == 500

MinLength == 3

\* The class [\";<>] of sanitize_text.
UnsafeChars == {"\"", ";", "<", ">"}

IsUnsafe(c) == c \in UnsafeChars

\* re.sub(r'[\";<>]', '', text) on the characters lo..hi of s.
RECURSIVE RemoveUnsafeRange(_, _, _)
RemoveUnsafeRange(s, lo, hi) ==
  IF lo > hi THEN ""
  ELSE IF lo = hi THEN (IF IsUnsafe(CharAt(s, lo)) THEN "" ELSE CharAt(s, lo))
  ELSE LET mid == (lo + hi) \div 2
       IN RemoveUnsafeRange(s, lo, mid) \o RemoveUnsafeRange(s, mid + 1, hi)

RemoveUnsafe(s) == RemoveUnsafeRange(s, 1, Len(s))

\* A variant of sanitize_text that does not cut the text.
sanitize_text_NoLimit(text) ==
  Strip(RemoveUnsafe(text))

\* sanitize_text(text): re.sub(r'[\";<>]', '', text), then clean[:500].strip().
sanitize_text(text) ==
  LET clean == RemoveUnsafe(text)
  IN Strip(SubSeq(clean, 1, IF Len(clean) < MaxTextLength THEN Len(clean) ELSE MaxTextLength))

\* re.sub(r'\s{2,}', ' ', text) on the characters lo..hi of s: the first
\* character of a run of two or more whitespace characters becomes one space
\* and the rest of the run goes; a lone whitespace character stays as it is.
CollapseAt(s, i) ==
  LET c == CharAt(s, i) IN
  IF ~IsSpace(c) THEN c
  ELSE IF i > 1 /\ IsSpace(CharAt(s, i - 1)) THEN ""
  ELSE IF i < Len(s) /\ IsSpace(CharAt(s, i + 1)) THEN " "
  ELSE c

RECURSIVE CollapseRange(_, _, _)
CollapseRange(s, lo, hi) ==
  IF lo > hi THEN ""
  ELSE IF lo = hi THEN CollapseAt(s, lo)
  ELSE LET mid == (lo + hi) \div 2
       IN CollapseRange(s, lo, mid) \o CollapseRange(s, mid + 1, hi)

CollapseSpaces(s) == CollapseRange(s, 1, Len(s))

\* The index of the first character at or after i that is not whitespace
\* (Len(s) + 1 when there is none).
RECURSIVE SkipSpaces(_, _)
SkipSpaces(s, i) ==
  IF i > Len(s) \/ ~IsSpace(CharAt(s, i)) THEN i ELSE SkipSpaces(s, i + 1)

\* A variant of BeforePunctAt that keeps the whitespace before punctuation.
BeforePunctAt_Kept(s, i) == CharAt(s, i)

\* re.sub(r'\s+([.,!?;:])', r'\1', text): a run of whitespace that ends at a
\* punctuation mark goes.
BeforePunctAt(s, i) ==
  LET c == CharAt(s, i) IN
  IF ~IsSpace(c) THEN c
  ELSE LET j == SkipSpaces(s, i)
       IN IF j <= Len(s) /\ IsPunct(CharAt(s, j)) THEN "" ELSE c

RECURSIVE BeforePunctRange(_, _, _)
BeforePunctRange(s, lo, hi) ==
  IF lo > hi THEN ""
  ELSE IF lo = hi THEN BeforePunctAt(s, lo)
  ELSE LET mid == (lo + hi) \div 2
       IN BeforePunctRange(s, lo, mid) \o BeforePunctRange(s, mid + 1, hi)

NoSpaceBeforePunct(s) == BeforePunctRange(s, 1, Len(s))

\* re.sub(r'([.,!?;:])([A-Za-z])', r'\1 \2', text): a space goes between a
\* punctuation mark and the letter right after it.
AfterPunctAt(s, i) ==
  LET c == CharAt(s, i) IN
  IF IsPunct(c) /\ i < Len(s) /\ IsLetter(CharAt(s, i + 1)) THEN c \o " " ELSE c

RECURSIVE AfterPunctRange(_, _, _)
AfterPunctRange(s, lo, hi) ==
  IF lo > hi THEN ""
  ELSE IF lo = hi THEN AfterPunctAt(s, lo)
  ELSE LET mid == (lo + hi) \div 2
       IN AfterPunctRange(s, lo, mid) \o AfterPunctRange(s, mid + 1, hi)

SpaceAfterPunct(s) == AfterPunctRange(s, 1, Len(s))

\* grammar_cleanup(text).
grammar_cleanup(text) ==
  Strip(SpaceAfterPunct(NoSpaceBeforePunct(CollapseSpaces(text))))

\* A variant of validate_input that measures the text as given.
validate_input_NoStrip(text) == text # "" /\ Len(text) >= MinLength

\* validate_input(text, min_length=3): bool(text and len(text.strip()) >= 3).
validate_input(text) == text # "" /\ Len(Strip(text)) >= MinLength

---------------------------------------------------------------------------
\* build_camera_description.

\* A variant of LensDescription whose fallback drops the word "lens".
LensDescription_NoLensWord(lens, iso) ==
  IF ~HasKey(LENS_LIBRARY, lens)
  THEN "using a " \o lens \o " at ISO " \o IntToStr(iso)
  ELSE LET lens_info == Get(LENS_LIBRARY, lens)
       IN "using a " \o lens_info.description \o " at ISO " \o IntToStr(iso)
            \o ", " \o lens_info.characteristics

\* lens_desc (lines 688-696): the library's description and characteristics,
\* or the raw lens string for a lens the library does not hold.
LensDescription(lens, iso) ==
  IF ~HasKey(LENS_LIBRARY, lens)
  THEN "using a " \o lens \o " lens at ISO " \o IntToStr(iso)
  ELSE LET lens_info == Get(LENS_LIBRARY, lens)
       IN "using a " \o lens_info.description \o " at ISO " \o IntToStr(iso)
            \o ", " \o lens_info.characteristics

\* A variant of build_camera_description that never names the camera body.
build_camera_description_NoBody(camera_body, lens, iso) ==
  "captured " \o LensDescription(lens, iso)

\* build_camera_description(camera_body, lens, iso).
build_camera_description(camera_body, lens, iso) ==
  LET lens_desc == LensDescription(lens, iso) IN
  IF HasKey(CAMERA_BODIES, camera_body)
  THEN "captured on a " \o camera_body \o " ("
         \o Get(CAMERA_BODIES, camera_body).sensor \o ") " \o lens_desc
  ELSE "captured " \o lens_desc

---------------------------------------------------------------------------
\* build_prompt.  A request r is the record of the function's arguments; rnd
\* holds what the four random.choice calls return and now is what
\* datetime.now() returns (kept as the instant: no claim reads its ISO text).

\* What a call gives back: a value, or an exception with the key it names.
Value(v) == [kind |-> "value", value |-> v]

Raise(error, key) == [kind |-> "raise", error |-> error, key |-> key]

\* A variant of Resolved that keeps the caller's lens.
Resolved_LensKept(r, rnd) ==
  IF r.randomize
  THEN [lighting |-> rnd.lighting, mood |-> rnd.mood, color |-> rnd.color, lens |-> r.lens]
  ELSE [lighting |-> r.lighting, mood |-> r.mood, color |-> r.color, lens |-> r.lens]

\* lighting, mood, color and lens after lines 733-738.
Resolved(r, rnd) ==
  IF r.randomize
  THEN [lighting |-> rnd.lighting, mood |-> rnd.mood, color |-> rnd.color, lens |-> rnd.lens]
  ELSE [lighting |-> r.lighting, mood |-> r.mood, color |-> r.color, lens |-> r.lens]

\* What random.choice may return at lines 735-738.
RandomChoices ==
  [lighting : Keys(LIGHTING), mood : Keys(MOOD), color : Keys(COLOR), lens : Keys(LENS_LIBRARY)]

\* A variant of TextureDescription that passes the secondary texture in
\* every mode but all_combined.
TextureDescription_AnySecondary(r) ==
  IF r.texture_mode = "all_combined" THEN get_all_textures_combined
  ELSE combine_textures(r.texture_primary, r.texture_secondary)

\* texture_desc (lines 746-754).
TextureDescription(r) ==
  IF r.texture_mode = "all_combined" THEN get_all_textures_combined
  ELSE IF r.texture_mode = "primary_secondary" /\ Truthy(r.texture_secondary)
    THEN combine_textures(r.texture_primary, r.texture_secondary)
  ELSE combine_textures(r.texture_primary, None)

\* The dictionary reads of lines 741-773 in the order they are made, each
\* with the key it reads: the first key its dictionary does not hold raises
\* KeyError.
Lookups(r, rnd) ==
  << <<ASPECT_RATIO, r.aspect_ratio>>,
     <<LIGHTING, Resolved(r, rnd).lighting>>,
     <<COMPOSITION, r.composition>>,
     <<QUALITY, r.quality>>,
     <<MOOD, Resolved(r, rnd).mood>>,
     <<COLOR, Resolved(r, rnd).color>> >>

MissingLookups(r, rnd) ==
  {i \in DOMAIN Lookups(r, rnd) : ~HasKey(Lookups(r, rnd)[i][1], Lookups(r, rnd)[i][2])}

\* A variant of PromptParts with the camera sentence before the lighting
\* sentence.
PromptParts_CameraFirst(r, rnd) ==
  LET subject     == sanitize_text(r.subject)
      setting     == sanitize_text(r.setting)
      res         == Resolved(r, rnd)
      ratio       == Get(ASPECT_RATIO, r.aspect_ratio).value
      camera_desc == build_camera_description(r.camera_body, res.lens, r.iso)
      mood_text   == RStripDots(Get(MOOD, res.mood).value)
      color_text  == Get(COLOR, res.color).value
  IN << "A photorealistic " \o Lower(r.mode) \o " photograph of " \o subject
          \o ", set in " \o setting \o ".",
        "The image is " \o camera_desc \o ", " \o Get(COMPOSITION, r.composition).value \o ".",
        "The scene is illuminated by " \o Get(LIGHTING, res.lighting).value \o ".",
        "The photograph is " \o Get(QUALITY, r.quality).value \o ", "
          \o TextureDescription(r) \o ".",
        mood_text \o " " \o color_text \o ".",
        "Image format: " \o ratio \o " aspect ratio." >>

\* prompt_parts (lines 756-777), for keys the dictionaries hold.
PromptParts(r, rnd) ==
  LET subject     == sanitize_text(r.subject)
      setting     == sanitize_text(r.setting)
      res         == Resolved(r, rnd)
      ratio       == Get(ASPECT_RATIO, r.aspect_ratio).value
      camera_desc == build_camera_description(r.camera_body, res.lens, r.iso)
      mood_text   == RStripDots(Get(MOOD, res.mood).value)
      color_text  == Get(COLOR, res.color).value
  IN << "A photorealistic " \o Lower(r.mode) \o " photograph of " \o subject
          \o ", set in " \o setting \o ".",
        "The scene is illuminated by " \o Get(LIGHTING, res.lighting).value \o ".",
        "The image is " \o camera_desc \o ", " \o Get(COMPOSITION, r.composition).value \o ".",
        "The photograph is " \o Get(QUALITY, r.quality).value \o ", "
          \o TextureDescription(r) \o ".",
        mood_text \o " " \o color_text \o ".",
        "Image format: " \o ratio \o " aspect ratio." >>

\* A variant of RealismAnchor that falls back to the strict anchor.
RealismAnchor_StrictFallback(realism_mode) ==
  IF HasKey(REALISM_ANCHORS, realism_mode)
  THEN Get(REALISM_ANCHORS, realism_mode).value
  ELSE Get(REALISM_ANCHORS, "strict_no_cgi").value

\* realism_anchor (line 784).
RealismAnchor(realism_mode) ==
  IF HasKey(REALISM_ANCHORS, realism_mode)
  THEN Get(REALISM_ANCHORS, realism_mode).value
  ELSE Get(REALISM_ANCHORS, "standard").value

\* default_negatives (lines 789-793).
default_negatives ==
  << "plastic skin", "airbrushed", "CGI", "3D render", "digital painting",
     "artificial smoothing", "unrealistic textures", "synthetic appearance",
     "overly smooth skin", "fake materials" >>

\* A variant of CombinedNegative that puts the user's text last.
CombinedNegative_DefaultsFirst(negative) ==
  IF negative # "" /\ Strip(negative) # ""
  THEN Join(default_negatives, ", ") \o ", " \o sanitize_text(negative)
  ELSE Join(default_negatives, ", ")

\* combined_negative (lines 795-799).
CombinedNegative(negative) ==
  IF negative # "" /\ Strip(negative) # ""
  THEN sanitize_text(negative) \o ", " \o Join(default_negatives, ", ")
  ELSE Join(default_negatives, ", ")

\* final_prompt (lines 779-801).
FinalPrompt(r, rnd) ==
  LET base_prompt == grammar_cleanup(Join(PromptParts(r, rnd), " "))
  IN grammar_cleanup(base_prompt \o " " \o RealismAnchor(r.realism_mode))
       \o "\n\nAvoid: " \o CombinedNegative(r.negative)

\* metadata (lines 804-822).
Metadata(r, rnd, now) ==
  [timestamp        |-> now,
   version          |-> VERSION,
   mode             |-> r.mode,
   camera_body      |-> r.camera_body,
   lens             |-> Resolved(r, rnd).lens,
   iso              |-> r.iso,
   lighting         |-> Resolved(r, rnd).lighting,
   composition      |-> r.composition,
   texture_primary  |-> r.texture_primary,
   texture_secondary |-> r.texture_secondary,
   texture_mode     |-> r.texture_mode,
   quality          |-> r.quality,
   mood             |-> Resolved(r, rnd).mood,
   color            |-> Resolved(r, rnd).color,
   aspect_ratio     |-> Get(ASPECT_RATIO, r.aspect_ratio).value,
   realism_mode     |-> r.realism_mode,
   randomized       |-> r.randomize]

\* A variant of build_prompt that writes the reading of the clock into the
\* prompt.
build_prompt_Stamped(r, rnd, now) ==
  LET missing == MissingLookups(r, rnd) IN
  IF missing # {}
  THEN LET i == CHOOSE i \in missing : \A j \in missing : i <= j
       IN Raise("KeyError", Lookups(r, rnd)[i][2])
  ELSE Value([prompt |-> FinalPrompt(r, rnd) \o " " \o IntToStr(now),
              metadata |-> Metadata(r, rnd, now)])

\* build_prompt(...): the dict of prompt and metadata, or the KeyError of the
\* first dictionary read that misses.
build_prompt(r, rnd, now) ==
  LET missing == MissingLookups(r, rnd) IN
  IF missing # {}
  THEN LET i == CHOOSE i \in missing : \A j \in missing : i <= j
       IN Raise("KeyError", Lookups(r, rnd)[i][2])
  ELSE Value([prompt |-> FinalPrompt(r, rnd), metadata |-> Metadata(r, rnd, now)])

---------------------------------------------------------------------------
\* ollama_integration.py.  An HTTP request comes back with an exception of
\* the requests library (kind "exception") or with a response (kind
\* "response") that has a status and a body.  A body is text that is no JSON
\* (type "malformed"), a JSON array (type "array") or a JSON object (type
\* "object"); of an object the model keeps the member "response": None when
\* the object has no such member, otherwise Some of a string (with its text),
\* of null or of a number.

\* OLLAMA_BASE (line 14).
OLLAMA_BASE == "http://127.0.0.1:11434"

\* task (lines 57-68).
Task(mode) ==
  IF mode = "strict"
  THEN "Rewrite the following prompt for clarity, grammar, and readability, "
         \o "without altering any factual or technical details. "
         \o "Preserve all realism and lighting instructions."
  ELSE "Rewrite the following prompt in a cinematic and emotionally rich style, "
         \o "keeping all photographic and realism specifications intact. "
         \o "Enhance flow and immersion."

\* payload (lines 70-75); the temperature 0.6 is kept as its text.
Payload(prompt, model, mode) ==
  [model   |-> model,
   prompt  |-> Task(mode) \o "\n\nPrompt:\n" \o prompt \o "\n\nEnhanced version:",
   stream  |-> FALSE,
   options |-> [temperature |-> "0.6", num_predict |-> 400]]

\* A variant of ModelGiven that takes every model for given.
ModelGiven_Always(model) == TRUE

\* The test of line 54: `not model` is false.
ModelGiven(model) == model # ""

\* The request of line 78.
EnhanceRequest(prompt, model, mode) ==
  [method  |-> "POST",
   url     |-> OLLAMA_BASE \o "/api/generate",
   json    |-> Payload(prompt, model, mode),
   timeout |-> Some(60)]

\* r.ok of the requests library: the status is below 400.
Ok(r) == r.status < 400

\* r.json().get("response", "").strip() of line 80 raises: the body is no
\* JSON (r.json() raises), is an array (a list has no get), or its "response"
\* is null or a number (neither has strip).
ResponseRaises(body) ==
  \/ body.type = "malformed"
  \/ body.type = "array"
  \/ body.response # None /\ body.response[1].type # "string"

\* r.json().get("response", "").strip() of line 80 when it does not raise.
ResponseText(body) ==
  IF body.response = None THEN "" ELSE Strip(body.response[1].text)

\* The characters of model names in code point order, the order Python
\* compares the characters of strings in.
NameChars == "-.0123456789:ABCDEFGHIJKLMNOPQRSTUVWXYZ_abcdefghijklmnopqrstuvwxyz"

CodePointRank(c) == CHOOSE i \in 1..Len(NameChars) : SubSeq(NameChars, i, i) = c

\* a < b of two Python strings.
RECURSIVE StrLess(_, _)
StrLess(a, b) ==
  IF b = "" THEN FALSE
  ELSE IF a = "" THEN TRUE
  ELSE IF Head(a) # Head(b) THEN CodePointRank(CharAt(a, 1)) < CodePointRank(CharAt(b, 1))
  ELSE StrLess(Tail(a), Tail(b))

\* sorted(names): insertion of each name after the names not greater than it
\* (the sort is stable).
RECURSIVE Insert(_, _)
Insert(sorted_names, name) ==
  IF sorted_names = <<>> THEN <<name>>
  ELSE IF StrLess(name, Head(sorted_names)) THEN <<name>> \o sorted_names
  ELSE <<Head(sorted_names)>> \o Insert(Tail(sorted_names), name)

\* A variant of Sorted that leaves the names in the order given.
Sorted_AsGiven(names) == names

\* sorted(names).
RECURSIVE Sorted(_)
Sorted(names) ==
  IF names = <<>> THEN <<>>
  ELSE Insert(Sorted(SubSeq(names, 1, Len(names) - 1)), names[Len(names)])

\* The body of an answer to /api/tags: no JSON (type "malformed"), a JSON
\* array (type "array") or a JSON object (type "object"), of which the model
\* keeps the member "models": None when the object has none, otherwise Some
\* of null or of a list of entries; of an entry the model keeps the member
\* "name", None when the entry has none.

\* [m["name"] for m in r.json().get("models", [])] (lines 26 and 35) raises:
\* the body is no JSON, is an array, its "models" is null, or an entry has no
\* "name".
NamesRaise(body) ==
  \/ body.type = "malformed"
  \/ body.type = "array"
  \/ /\ body.models # None
     /\ \/ body.models[1].type = "null"
        \/ \E i \in DOMAIN body.models[1].items : body.models[1].items[i].name = None

\* [m["name"] for m in r.json().get("models", [])] when it does not raise.
Names(body) ==
  IF body.models = None THEN <<>>
  ELSE [i \in DOMAIN body.models[1].items |-> body.models[1].items[i].name[1]]

\* The request of line 24.
TagsRequest ==
  [method |-> "GET", url |-> OLLAMA_BASE \o "/api/tags", timeout |-> Some(5)]

\* The request ollama.list() makes (line 34 and line 838 of the application):
\* the call passes no timeout.
ClientListRequest ==
  [method |-> "GET", url |-> OLLAMA_BASE \o "/api/tags", timeout |-> None]

\* Lines 23-30 of get_available_models once requests.get has come back with
\* r: the names to return, or the move to the fallback.
RestNames(r) ==
  IF r.kind = "exception" THEN Raise("Exception", "")
  ELSE IF r.status # 200 THEN Raise("Fallback", "")
  ELSE IF NamesRaise(r.body) THEN Raise("Exception", "")
  ELSE IF Names(r.body) # <<>> THEN Value(Sorted(Names(r.body)))
  ELSE Raise("Fallback", "")

\* Lines 33-37 (and lines 837-841 of the application) once ollama.list() has
\* come back with r.
ClientNames(r) ==
  IF r.kind = "exception" THEN <<>>
  ELSE IF NamesRaise(r.body) THEN <<>>
  ELSE Sorted(Names(r.body))

\* A variant of EnhanceResult that takes an empty response for an answer.
EnhanceResult_EmptyAccepted(prompt, r) ==
  IF r.kind = "exception" THEN <<prompt, FALSE>>
  ELSE IF ~Ok(r) THEN <<prompt, FALSE>>
  ELSE IF ResponseRaises(r.body) THEN <<prompt, FALSE>>
  ELSE <<ResponseText(r.body), TRUE>>

\* What enhance_prompt returns once requests.post has come back with r (lines
\* 77-86): every exception of the try block is caught and passed.
EnhanceResult(prompt, r) ==
  IF r.kind = "exception" THEN <<prompt, FALSE>>
  ELSE IF ~Ok(r) THEN <<prompt, FALSE>>
  ELSE IF ResponseRaises(r.body) THEN <<prompt, FALSE>>
  ELSE IF ResponseText(r.body) # "" THEN <<ResponseText(r.body), TRUE>>
  ELSE <<prompt, FALSE>>

---------------------------------------------------------------------------
\* The calls.  Each behaviour starts with one operation and its arguments,
\* drawn from the input sets below, and runs the operation.

\* A texture key no library holds, and the inputs of combine_textures.
UnknownTexture == "velvet_soft"

PrimaryInputs == Keys(TEXTURE_LIBRARY) \cup {UnknownTexture, ""}

SecondaryInputs ==
  {None} \cup {Some(k) : k \in Keys(TEXTURE_LIBRARY) \cup {UnknownTexture, ""}}

\* How often get_all_textures_combined is called in one behaviour.
MaxCalls == 3

NoRet == [kind |-> "none"]

\* No HTTP request has come back.
NoReply == [kind |-> "none"]

\* A camera and a lens no catalog holds, and the inputs of
\* build_camera_description; the ISO values are those of the form's slider
\* (line 1115) and 0.
UnknownCamera == "Pentax K-1"

UnknownLens == "40mm f/2.8"

CameraInputs == Keys(CAMERA_BODIES) \cup {UnknownCamera, ""}

LensInputs == Keys(LENS_LIBRARY) \cup {UnknownLens, ""}

IsoInputs == {0, 50, 100, 200, 400, 800, 1600, 3200, 6400}

\* The request of the specification's end-to-end example.
BaseRequest ==
  [mode |-> "Portrait",
   subject |-> "a woman in a red coat",
   setting |-> "a rainy city street",
   camera_body |-> "Canon EOS R5 Mark II",
   lens |-> "85mm f/1.4",
   iso |-> 100,
   lighting |-> "Golden Hour",
   composition |-> "Rule of Thirds",
   texture_primary |-> "skin_realistic",
   texture_secondary |-> Some("fabric_detailed"),
   texture_mode |-> "primary_secondary",
   quality |-> "Photorealistic 8K",
   mood |-> "Intimate Warm",
   color |-> "Warm Golden",
   aspect_ratio |-> "Portrait (2:3)",
   realism_mode |-> "strict_no_cgi",
   negative |-> "",
   randomize |-> FALSE]

\* A string that is a key of no catalog.
UnknownKey == "Custom"

\* The modes of the form (line 1013) and two other strings.
ModeInputs == {"Portrait", "Landscape", "Editorial", "Product", "Documentary", "MACRO", ""}

TextureModeInputs == {"single", "primary_secondary", "all_combined", UnknownKey}

\* MaxTextLength spaces.
RECURSIVE Spaces(_)
Spaces(n) ==
  IF n = 0 THEN ""
  ELSE IF n % 2 = 1 THEN " " \o Spaces(n - 1)
  ELSE LET half == Spaces(n \div 2) IN half \o half

\* Subjects, settings and negative texts: long enough and too short, with and
\* without the characters sanitize_text removes, one with a blank line and one
\* whose first 500 characters are spaces.
TextInputs ==
  { "a woman in a red coat", "", "ab", "abc", "  ab  ", " a b ",
    "\"a\"", "ab;", "<b>", ";;;", "a<cat>", "cat, dog.", "a hat\n\nAvoid: rain",
    Spaces(MaxTextLength) \o "abc" }

NegativeInputs ==
  {"", "   ", "motion blur, lens flare", ";", " <>", "blur;\"glare\"", "glare\n\nAvoid: blur"}

\* n letters.
RECURSIVE Letters(_)
Letters(n) ==
  IF n = 0 THEN ""
  ELSE IF n % 2 = 1 THEN "x" \o Letters(n - 1)
  ELSE LET half == Letters(n \div 2) IN half \o half

\* The pieces the texts given to the text functions are made of: a letter,
\* whitespace, the four characters sanitize_text removes, punctuation, and a
\* run of letters one short of the limit of sanitize_text.
TextPieces ==
  {"a", " ", ";", "\"", "<", ">", ".", "1", "\n", Letters(MaxTextLength - 1)}

\* How many pieces a text is made of at most.
MaxPieces == 3

RECURSIVE TextsOf(_)
TextsOf(n) ==
  IF n = 0 THEN {""}
  ELSE LET shorter == TextsOf(n - 1)
       IN shorter \cup {t \o p : t \in shorter, p \in TextPieces}

\* Texts with spacing and punctuation for grammar_cleanup to work on.
GrammarInputs ==
  { "a , b", "a  .  b", "a.b,c", "x ,, y", "85mm f/1.4", "Image format: 2.39:1 aspect",
    "a,\nb", "a \t\n b !", "Hello ,world .Next:one", " . a", "a .. b" }

\* The texts given to sanitize_text, grammar_cleanup and validate_input.
Texts == TextsOf(MaxPieces) \cup TextInputs \cup NegativeInputs \cup GrammarInputs

\* The requests that differ from BaseRequest in one argument.
OneArgumentRequests ==
  {[BaseRequest EXCEPT !.mode = v] : v \in ModeInputs}
    \cup {[BaseRequest EXCEPT !.camera_body = v] : v \in CameraInputs}
    \cup {[BaseRequest EXCEPT !.lens = v] : v \in LensInputs}
    \cup {[BaseRequest EXCEPT !.iso = v] : v \in IsoInputs}
    \cup {[BaseRequest EXCEPT !.lighting = v] : v \in Keys(LIGHTING) \cup {UnknownKey}}
    \cup {[BaseRequest EXCEPT !.composition = v] : v \in Keys(COMPOSITION) \cup {UnknownKey}}
    \cup {[BaseRequest EXCEPT !.texture_primary = v] : v \in PrimaryInputs}
    \cup {[BaseRequest EXCEPT !.texture_secondary = v] : v \in SecondaryInputs}
    \cup {[BaseRequest EXCEPT !.texture_mode = v] : v \in TextureModeInputs}
    \cup {[BaseRequest EXCEPT !.quality = v] : v \in Keys(QUALITY) \cup {UnknownKey}}
    \cup {[BaseRequest EXCEPT !.mood = v] : v \in Keys(MOOD) \cup {UnknownKey}}
    \cup {[BaseRequest EXCEPT !.color = v] : v \in Keys(COLOR) \cup {UnknownKey}}
    \cup {[BaseRequest EXCEPT !.aspect_ratio = v] : v \in Keys(ASPECT_RATIO) \cup {UnknownKey, "2:3"}}
    \cup {[BaseRequest EXCEPT !.realism_mode = v] : v \in Keys(REALISM_ANCHORS) \cup {UnknownKey, ""}}
    \cup {[BaseRequest EXCEPT !.negative = v] : v \in NegativeInputs}

\* The requests whose catalog keys are, each on its own, that of BaseRequest
\* or a string its catalog does not hold.
KeyRequests ==
  { [BaseRequest EXCEPT
       !.camera_body = k.camera_body, !.lens = k.lens, !.lighting = k.lighting,
       !.composition = k.composition, !.quality = k.quality, !.mood = k.mood,
       !.color = k.color, !.aspect_ratio = k.aspect_ratio,
       !.texture_primary = k.texture_primary,
       !.texture_secondary = Some(k.texture_secondary),
       !.texture_mode = k.texture_mode, !.realism_mode = k.realism_mode] :
    k \in [camera_body : {BaseRequest.camera_body, UnknownKey},
           lens : {BaseRequest.lens, UnknownKey},
           lighting : {BaseRequest.lighting, UnknownKey},
           composition : {BaseRequest.composition, UnknownKey},
           quality : {BaseRequest.quality, UnknownKey},
           mood : {BaseRequest.mood, UnknownKey},
           color : {BaseRequest.color, UnknownKey},
           aspect_ratio : {BaseRequest.aspect_ratio, UnknownKey},
           texture_primary : {BaseRequest.texture_primary, UnknownKey},
           texture_secondary : {BaseRequest.texture_secondary[1], UnknownKey},
           texture_mode : {BaseRequest.texture_mode, UnknownKey},
           realism_mode : {BaseRequest.realism_mode, UnknownKey}] }

\* The requests that differ from BaseRequest in subject and setting.
TextRequests ==
  {[BaseRequest EXCEPT !.subject = s, !.setting = e] : s \in TextInputs, e \in TextInputs}

\* Requests with randomize set: BaseRequest, and BaseRequest with a lighting,
\* a mood, a color and a lens that no catalog holds.
RandomizedRequests ==
  { [BaseRequest EXCEPT !.randomize = TRUE],
    [BaseRequest EXCEPT !.randomize = TRUE, !.lighting = UnknownKey, !.mood = UnknownKey,
                        !.color = UnknownKey, !.lens = UnknownKey] }

\* The texture modes of the form other than that of BaseRequest; the form
\* passes no secondary texture with them (lines 1176-1191).
OtherModeRequests ==
  {[BaseRequest EXCEPT !.texture_mode = m, !.texture_secondary = None, !.texture_primary = p] :
     m \in {"single", "all_combined"}, p \in {"skin_realistic", "macro_detail"}}

\* build_prompt given the selections of a preset in the primary_secondary
\* mode, with the ISO, the aspect ratio and the negative text the form starts
\* with (lines 1028, 1120, 1232).
PresetRequest(p) ==
  [mode |-> p.mode,
   subject |-> p.subject,
   setting |-> p.setting,
   camera_body |-> p.camera_body,
   lens |-> p.lens,
   iso |-> 100,
   lighting |-> p.lighting,
   composition |-> p.composition,
   texture_primary |-> p.texture_primary,
   texture_secondary |-> Some(p.texture_secondary),
   texture_mode |-> "primary_secondary",
   quality |-> p.quality,
   mood |-> p.mood,
   color |-> p.color,
   aspect_ratio |-> ASPECT_RATIO[1].key,
   realism_mode |-> p.realism_mode,
   negative |-> "",
   randomize |-> FALSE]

PresetRequests == {PresetRequest(PRESETS[i]) : i \in DOMAIN PRESETS}

Requests ==
  OneArgumentRequests \cup KeyRequests \cup TextRequests \cup RandomizedRequests
    \cup OtherModeRequests \cup PresetRequests

\* What the widgets of main can hold when the Generate button is pressed: the
\* select boxes hold options of theirs (lines 1011-1197), the secondary
\* texture is None or compatible with the primary and None outside the
\* primary_secondary mode, and the text areas hold any text.
FormCanHold(r) ==
  /\ r.mode \in {"Portrait", "Landscape", "Editorial", "Product", "Documentary"}
  /\ HasKey(ASPECT_RATIO, r.aspect_ratio)
  /\ HasKey(CAMERA_BODIES, r.camera_body)
  /\ HasKey(LENS_LIBRARY, r.lens)
  /\ r.iso \in {50, 100, 200, 400, 800, 1600, 3200, 6400}
  /\ HasKey(LIGHTING, r.lighting)
  /\ HasKey(MOOD, r.mood)
  /\ HasKey(COLOR, r.color)
  /\ HasKey(COMPOSITION, r.composition)
  /\ r.texture_mode \in {"single", "primary_secondary", "all_combined"}
  /\ HasKey(TEXTURE_LIBRARY, r.texture_primary)
  /\ \/ r.texture_secondary = None
     \/ /\ r.texture_mode = "primary_secondary"
        /\ InList(r.texture_secondary[1], get_compatible_textures(r.texture_primary))
  /\ HasKey(QUALITY, r.quality)
  /\ HasKey(REALISM_ANCHORS, r.realism_mode)

FormRequests == {r \in Requests : FormCanHold(r)}

\* The requests whose result is built again from its metadata.
ReuseRequests == FormRequests \cup PresetRequests

\* Of the four random choices of one call, how many differ from the first key
\* of their catalog.
MaxVaried == 1

FirstDraw ==
  [lighting |-> LIGHTING[1].key, mood |-> MOOD[1].key, color |-> COLOR[1].key,
   lens |-> LENS_LIBRARY[1].key]

\* The random choices a call is run with.
RandomDraws ==
  {d \in RandomChoices :
     Cardinality({f \in {"lighting", "mood", "color", "lens"} : d[f] # FirstDraw[f]}) <= MaxVaried}

\* The readings of the clock.
MaxClock == 1

\* The rnd of a call that does not randomize.
NoRandom == [lighting |-> "", mood |-> "", color |-> "", lens |-> ""]

\* The arguments of enhance_prompt.
PromptInputs == {"", "X", "A photorealistic portrait photograph of a cat, set in a garden."}

ModelInputs == {"", "deepseek-r1:8b"}

EnhanceModeInputs == {"strict", "creative", UnknownKey}

\* What the endpoint can come back with.
StatusInputs == {200, 201, 404, 500}

ResponseTexts == {"", "   ", "X", " A cinematic portrait.\n"}

BodyInputs ==
  {[type |-> "malformed"], [type |-> "array"], [type |-> "object", response |-> None]}
    \cup {[type |-> "object", response |-> Some([type |-> "string", text |-> s])] :
            s \in ResponseTexts}
    \cup {[type |-> "object", response |-> Some([type |-> y])] : y \in {"null", "number"}}

Replies ==
  {[kind |-> "exception", error |-> x] : x \in {"ConnectionError", "Timeout"}}
    \cup [kind : {"response"}, status : StatusInputs, body : BodyInputs]

\* What /api/tags can come back with: the names of the models, how many
\* models an answer lists at most, and the bodies.
NameInputs == {"llama3:8b", "deepseek-r1:8b", "Mistral-7b"}

MaxModels == 2

RECURSIVE NameLists(_)
NameLists(n) ==
  IF n = 0 THEN {<<>>}
  ELSE LET shorter == NameLists(n - 1)
       IN shorter \cup {Append(l, x) : l \in shorter, x \in NameInputs}

EntryLists ==
  {[i \in DOMAIN l |-> [name |-> Some(l[i])]] : l \in NameLists(MaxModels)}
    \cup {<<[name |-> None]>>, <<[name |-> Some("llama3:8b")], [name |-> None]>>}

TagsObjects ==
  {[type |-> "object", models |-> None],
   [type |-> "object", models |-> Some([type |-> "null"])]}
    \cup {[type |-> "object", models |-> Some([type |-> "list", items |-> l])] :
            l \in EntryLists}

TagsBodyInputs == {[type |-> "malformed"], [type |-> "array"]} \cup TagsObjects

TagsReplies ==
  {[kind |-> "exception", error |-> x] : x \in {"ConnectionError", "Timeout"}}
    \cup [kind : {"response"}, status : StatusInputs, body : TagsBodyInputs]

\* What ollama.list() can come back with: an exception of the client, or the
\* object the endpoint answered with.
ClientReplies ==
  {[kind |-> "exception", error |-> x] : x \in {"ConnectionError", "ResponseError"}}
    \cup [kind : {"response"}, status : {200}, body : TagsObjects]

Inputs(o) ==
  CASE o = "combine_textures" ->
         [primary : PrimaryInputs, secondary : SecondaryInputs]
    [] o = "get_all_textures_combined" -> {[calls |-> 0]}
    [] o = "build_camera_description" ->
         [camera_body : CameraInputs, lens : LensInputs, iso : IsoInputs]
    [] o \in {"sanitize_text", "grammar_cleanup", "validate_input"} -> [text : Texts]
    [] o = "get_available_models" -> {[module |-> "ollama_integration"]}
    [] o = "app_get_available_models" -> [OLLAMA_AVAILABLE : BOOLEAN]
    [] o = "enhance_prompt" ->
         [prompt : PromptInputs, model : ModelInputs, mode : EnhanceModeInputs]
    [] o = "reuse" -> [request : ReuseRequests, now : {0}]
    [] o = "build_prompt" ->
         [request : Requests, now : {0}] \cup [request : {BaseRequest}, now : 0..MaxClock]
    [] o = "generate" ->
         [request : FormRequests, now : {0}] \cup [request : {BaseRequest}, now : 0..MaxClock]

\* One of the operations `ops` is about to be called; the history is empty, as
\* line 894 leaves it.
Start(ops) ==
  /\ pc = "call"
  /\ op \in ops
  /\ args \in Inputs(op)
  /\ ret = NoRet
  /\ returned = {}
  /\ prompt_history = <<>>
  /\ requests_sent = <<>>
  /\ reply = NoReply

Init == Start({"build_prompt", "generate"})

InitTexture == Start({"combine_textures", "get_all_textures_combined"})

InitCamera == Start({"build_camera_description"})

InitText == Start({"sanitize_text", "grammar_cleanup", "validate_input"})

CallCombineTextures ==
  /\ pc = "call"
  /\ op = "combine_textures"
  /\ ret' = Value(combine_textures(args.primary, args.secondary))
  /\ returned' = returned \cup {ret'.value}
  /\ pc' = "done"
  /\ UNCHANGED <<op, args, prompt_history, requests_sent, reply>>

CallGetAllTexturesCombined ==
  /\ pc = "call"
  /\ op = "get_all_textures_combined"
  /\ args.calls < MaxCalls
  /\ ret' = Value(get_all_textures_combined)
  /\ returned' = returned \cup {ret'.value}
  /\ args' = [args EXCEPT !.calls = @ + 1]
  /\ UNCHANGED <<pc, op, prompt_history, requests_sent, reply>>

CallBuildCameraDescription ==
  /\ pc = "call"
  /\ op = "build_camera_description"
  /\ ret' = Value(build_camera_description(args.camera_body, args.lens, args.iso))
  /\ returned' = returned \cup {ret'.value}
  /\ pc' = "done"
  /\ UNCHANGED <<op, args, prompt_history, requests_sent, reply>>

CallSanitizeText ==
  /\ pc = "call"
  /\ op = "sanitize_text"
  /\ ret' = Value(sanitize_text(args.text))
  /\ pc' = "done"
  /\ UNCHANGED <<op, args, returned, prompt_history, requests_sent, reply>>

CallGrammarCleanup ==
  /\ pc = "call"
  /\ op = "grammar_cleanup"
  /\ ret' = Value(grammar_cleanup(args.text))
  /\ pc' = "done"
  /\ UNCHANGED <<op, args, returned, prompt_history, requests_sent, reply>>

CallValidateInput ==
  /\ pc = "call"
  /\ op = "validate_input"
  /\ ret' = Value(validate_input(args.text))
  /\ pc' = "done"
  /\ UNCHANGED <<op, args, returned, prompt_history, requests_sent, reply>>

InitOllama == Start({"enhance_prompt"})

\* enhance_prompt up to requests.post (lines 54-78): it returns at once for
\* an empty model, and otherwise sends the request and waits.
EnhancePromptSend ==
  /\ pc = "call"
  /\ op = "enhance_prompt"
  /\ IF ~ModelGiven(args.model)
       THEN /\ ret' = Value(<<args.prompt, FALSE>>)
            /\ pc' = "done"
            /\ UNCHANGED requests_sent
       ELSE /\ requests_sent' =
                 Append(requests_sent, EnhanceRequest(args.prompt, args.model, args.mode))
            /\ pc' = "waiting"
            /\ UNCHANGED ret
  /\ UNCHANGED <<op, args, returned, prompt_history, reply>>

\* enhance_prompt from the return of requests.post on (lines 78-86).
EnhancePromptReceive ==
  /\ pc = "waiting"
  /\ op = "enhance_prompt"
  /\ \E r \in Replies :
       /\ reply' = r
       /\ ret' = Value(EnhanceResult(args.prompt, r))
  /\ pc' = "done"
  /\ UNCHANGED <<op, args, returned, prompt_history, requests_sent>>

\* get_available_models of ollama_integration.py up to requests.get (lines
\* 23-24).
ListModelsSend ==
  /\ pc = "call"
  /\ op = "get_available_models"
  /\ requests_sent' = Append(requests_sent, TagsRequest)
  /\ pc' = "waiting"
  /\ UNCHANGED <<op, args, ret, returned, prompt_history, reply>>

\* get_available_models from the return of requests.get on (lines 24-34): it
\* returns the names, or calls ollama.list() and waits.
ListModelsReceive ==
  /\ pc = "waiting"
  /\ op = "get_available_models"
  /\ \E r \in TagsReplies :
       /\ reply' = r
       /\ IF RestNames(r).kind = "value"
            THEN /\ ret' = RestNames(r)
                 /\ pc' = "done"
                 /\ UNCHANGED requests_sent
            ELSE /\ requests_sent' = Append(requests_sent, ClientListRequest)
                 /\ pc' = "client"
                 /\ UNCHANGED ret
  /\ UNCHANGED <<op, args, returned, prompt_history>>

\* get_available_models from the return of ollama.list() on (lines 34-37).
ListModelsClientReceive ==
  /\ pc = "client"
  /\ op = "get_available_models"
  /\ \E r \in ClientReplies :
       /\ reply' = r
       /\ ret' = Value(ClientNames(r))
  /\ pc' = "done"
  /\ UNCHANGED <<op, args, returned, prompt_history, requests_sent>>

\* get_available_models of the application up to ollama.list() (lines
\* 834-838): it returns the empty list when the client library is missing.
AppListModelsSend ==
  /\ pc = "call"
  /\ op = "app_get_available_models"
  /\ IF ~args.OLLAMA_AVAILABLE
       THEN /\ ret' = Value(<<>>)
            /\ pc' = "done"
            /\ UNCHANGED requests_sent
       ELSE /\ requests_sent' = Append(requests_sent, ClientListRequest)
            /\ pc' = "client"
            /\ UNCHANGED ret
  /\ UNCHANGED <<op, args, returned, prompt_history, reply>>

\* get_available_models of the application from the return of ollama.list()
\* on (lines 838-841).
AppListModelsClientReceive ==
  /\ pc = "client"
  /\ op = "app_get_available_models"
  /\ \E r \in ClientReplies :
       /\ reply' = r
       /\ ret' = Value(ClientNames(r))
  /\ pc' = "done"
  /\ UNCHANGED <<op, args, returned, prompt_history, requests_sent>>

InitModels == Start({"get_available_models", "app_get_available_models"})

NextModels ==
  \/ ListModelsSend
  \/ ListModelsReceive
  \/ ListModelsClientReceive
  \/ AppListModelsSend
  \/ AppListModelsClientReceive

NextOllama ==
  \/ EnhancePromptSend
  \/ EnhancePromptReceive

\* The requests and the random choices of a session of several calls.
SessionRequests ==
  { BaseRequest,
    [BaseRequest EXCEPT !.lighting = UnknownKey],
    [BaseRequest EXCEPT !.randomize = TRUE] }

SessionDraws == {FirstDraw, [FirstDraw EXCEPT !.lighting = "Butterfly"]}

\* A session: no call made yet, the clock at 0.
InitSession ==
  /\ pc = "call"
  /\ op = "session"
  /\ args = [calls |-> 0]
  /\ ret = NoRet
  /\ returned = {}
  /\ prompt_history = <<>>
  /\ requests_sent = <<>>
  /\ reply = NoReply

\* One more call of build_prompt in a session; the clock reads the number of
\* calls made before it, and `returned` keeps the request, the reading and the
\* prompt or exception of every call.
SessionBuildPrompt ==
  /\ pc = "call"
  /\ op = "session"
  /\ args.calls < MaxCalls
  /\ \E r \in SessionRequests :
       \E rnd \in (IF r.randomize THEN SessionDraws ELSE {NoRandom}) :
         /\ ret' = build_prompt(r, rnd, args.calls)
         /\ returned' = returned \cup
              {[request |-> r, now |-> args.calls,
                outcome |-> IF ret'.kind = "value" THEN Value(ret'.value.prompt) ELSE ret']}
  /\ args' = [args EXCEPT !.calls = @ + 1]
  /\ UNCHANGED <<pc, op, prompt_history, requests_sent, reply>>

\* A call of get_all_textures_combined in a session.
SessionTextureCall ==
  /\ pc = "call"
  /\ op = "session"
  /\ args.calls < MaxCalls
  /\ ret' = Value(get_all_textures_combined)
  /\ args' = [args EXCEPT !.calls = @ + 1]
  /\ UNCHANGED <<pc, op, returned, prompt_history, requests_sent, reply>>

\* build_prompt called directly.
CallBuildPrompt ==
  /\ pc = "call"
  /\ op = "build_prompt"
  /\ \E rnd \in (IF args.request.randomize THEN RandomDraws ELSE {NoRandom}) :
       ret' = build_prompt(args.request, rnd, args.now)
  /\ returned' = returned
  /\ pc' = "done"
  /\ UNCHANGED <<op, args, prompt_history, requests_sent, reply>>

\* The generation logic of main (lines 1253-1284): the two validations, then
\* build_prompt and the append to the history; an exception of build_prompt
\* ends the run of the script before the append.
Generate ==
  /\ pc = "call"
  /\ op = "generate"
  /\ IF ~validate_input(args.request.subject)
       THEN /\ ret' = [kind |-> "error", field |-> "subject"]
            /\ UNCHANGED prompt_history
     ELSE IF ~validate_input(args.request.setting)
       THEN /\ ret' = [kind |-> "error", field |-> "setting"]
            /\ UNCHANGED prompt_history
     ELSE \E rnd \in (IF args.request.randomize THEN RandomDraws ELSE {NoRandom}) :
            /\ ret' = build_prompt(args.request, rnd, args.now)
            /\ prompt_history' =
                 IF ret'.kind = "value" THEN Append(prompt_history, ret'.value)
                 ELSE prompt_history
  /\ returned' = returned
  /\ pc' = "done"
  /\ UNCHANGED <<op, args, requests_sent, reply>>

\* The application (main) over several runs of its script.  The session state
\* holds prompt_history and the entries the preset and reuse buttons write,
\* kept in args.inputs under the name of the field (the key of the entry is
\* "input_" followed by that name); args.steps counts the buttons pressed and
\* is what the clock reads.  `returned` keeps the result of every successful
\* generation with its number.
MaxSteps == 3

\* What the form holds when Generate is pressed in a session.
AppForms ==
  { BaseRequest,
    [BaseRequest EXCEPT !.subject = "  "],
    [BaseRequest EXCEPT !.setting = "ab"],
    [BaseRequest EXCEPT !.texture_mode = "single", !.texture_secondary = None] }

\* A session state without input entries.
NoInputs == [k \in {} |-> ""]

\* for key, value in d.items(): st.session_state[f"input_{key}"] = value,
\* for the keys `fields` of d.
SetInputs(inputs, d, fields) ==
  [k \in (DOMAIN inputs) \cup fields |-> IF k \in fields THEN d[k] ELSE inputs[k]]

\* The first run of the script (lines 892-894).
InitApp ==
  /\ pc = "call"
  /\ op = "app"
  /\ args = [steps |-> 0, inputs |-> NoInputs]
  /\ ret = NoRet
  /\ returned = {}
  /\ prompt_history = <<>>
  /\ requests_sent = <<>>
  /\ reply = NoReply

\* The Generate button (lines 1253-1284).
AppGenerate ==
  /\ pc = "call"
  /\ op = "app"
  /\ args.steps < MaxSteps
  /\ \E r \in AppForms :
       IF ~validate_input(r.subject)
         THEN /\ ret' = [kind |-> "error", field |-> "subject"]
              /\ UNCHANGED <<prompt_history, returned>>
       ELSE IF ~validate_input(r.setting)
         THEN /\ ret' = [kind |-> "error", field |-> "setting"]
              /\ UNCHANGED <<prompt_history, returned>>
       ELSE /\ ret' = build_prompt(r, NoRandom, args.steps)
            /\ prompt_history' =
                 IF ret'.kind = "value" THEN Append(prompt_history, ret'.value)
                 ELSE prompt_history
            /\ returned' =
                 IF ret'.kind = "value"
                   THEN returned \cup {[n |-> Cardinality(returned) + 1, result |-> ret'.value]}
                 ELSE returned
  /\ args' = [args EXCEPT !.steps = @ + 1]
  /\ UNCHANGED <<pc, op, requests_sent, reply>>

\* A preset button (lines 993-999).
AppLoadPreset ==
  /\ pc = "call"
  /\ op = "app"
  /\ args.steps < MaxSteps
  /\ \E i \in DOMAIN PRESETS :
       /\ args' = [steps |-> args.steps + 1,
                   inputs |-> SetInputs(args.inputs, PRESETS[i], DOMAIN PRESETS[i] \ {"key"})]
       /\ ret' = [kind |-> "loaded", preset |-> PRESETS[i].key]
  /\ UNCHANGED <<pc, op, returned, prompt_history, requests_sent, reply>>

\* A Reuse Settings button of one of the last three prompts (lines 1381,
\* 1405-1410).  The entries are written after the widgets that carry their
\* keys were made in this run; the session state either takes them or
\* refuses the first with an exception.
AppReuseSettings ==
  /\ pc = "call"
  /\ op = "app"
  /\ args.steps < MaxSteps
  /\ \E idx \in 0..2 :
       /\ idx < Len(prompt_history)
       /\ LET metadata == prompt_history[Len(prompt_history) - idx].metadata IN
          \/ /\ args' = [steps |-> args.steps + 1,
                         inputs |-> SetInputs(args.inputs, metadata,
                                      DOMAIN metadata \ {"timestamp", "version", "randomized"})]
             /\ ret' = [kind |-> "reused", prompt |-> Len(prompt_history) - idx]
          \/ /\ args' = [args EXCEPT !.steps = @ + 1]
             /\ ret' = Raise("StreamlitAPIException", "input_mode")
  /\ UNCHANGED <<pc, op, returned, prompt_history, requests_sent, reply>>

\* The Clear All button (lines 945-947): the session state is emptied, and the
\* run that follows makes an empty history (lines 893-894).
AppClearAll ==
  /\ pc = "call"
  /\ op = "app"
  /\ args.steps < MaxSteps
  /\ args' = [steps |-> args.steps + 1, inputs |-> NoInputs]
  /\ prompt_history' = <<>>
  /\ ret' = [kind |-> "cleared"]
  /\ UNCHANGED <<pc, op, returned, requests_sent, reply>>

\* build_prompt given the selections its metadata md recorded (the keys the
\* Reuse Settings button copies, lines 1406-1408), with the texts of the
\* request r and randomize off.
RebuiltRequest(r, md) ==
  [mode |-> md.mode,
   subject |-> r.subject,
   setting |-> r.setting,
   camera_body |-> md.camera_body,
   lens |-> md.lens,
   iso |-> md.iso,
   lighting |-> md.lighting,
   composition |-> md.composition,
   texture_primary |-> md.texture_primary,
   texture_secondary |-> md.texture_secondary,
   texture_mode |-> md.texture_mode,
   quality |-> md.quality,
   mood |-> md.mood,
   color |-> md.color,
   aspect_ratio |-> md.aspect_ratio,
   realism_mode |-> md.realism_mode,
   negative |-> r.negative,
   randomize |-> FALSE]

InitReuse == Start({"reuse"})

\* The first build.
ReuseBuild ==
  /\ pc = "call"
  /\ op = "reuse"
  /\ \E rnd \in (IF args.request.randomize THEN RandomDraws ELSE {NoRandom}) :
       ret' = build_prompt(args.request, rnd, args.now)
  /\ pc' = "built"
  /\ UNCHANGED <<op, args, returned, prompt_history, requests_sent, reply>>

\* The build from the metadata of the first; `returned` keeps the first
\* result.
ReuseRebuild ==
  /\ pc = "built"
  /\ op = "reuse"
  /\ ret.kind = "value"
  /\ returned' = {ret.value}
  /\ ret' = build_prompt(RebuiltRequest(args.request, ret.value.metadata), NoRandom,
                         args.now + 1)
  /\ pc' = "done"
  /\ UNCHANGED <<op, args, prompt_history, requests_sent, reply>>

NextReuse ==
  \/ ReuseBuild
  \/ ReuseRebuild

NextApp ==
  \/ AppGenerate
  \/ AppLoadPreset
  \/ AppReuseSettings
  \/ AppClearAll

Next ==
  \/ CallBuildPrompt
  \/ Generate

NextTexture ==
  \/ CallCombineTextures
  \/ CallGetAllTexturesCombined

NextCamera == CallBuildCameraDescription

NextText ==
  \/ CallSanitizeText
  \/ CallGrammarCleanup
  \/ CallValidateInput

NextSession ==
  \/ SessionBuildPrompt
  \/ SessionTextureCall

\* The prompt builder, called directly and from the form.
Spec == Init /\ [][Next]_vars

\* The texture combiner.
SpecTexture == InitTexture /\ [][NextTexture]_vars

\* The camera description.
SpecCamera == InitCamera /\ [][NextCamera]_vars

\* The text functions.
SpecText == InitText /\ [][NextText]_vars

\* The operations that call the endpoint.
InitNetwork ==
  Start({"get_available_models", "app_get_available_models", "enhance_prompt"})

NextNetwork ==
  \/ NextModels
  \/ NextOllama

SpecNetwork == InitNetwork /\ [][NextNetwork]_vars

\* The enhancement client.
SpecOllama == InitOllama /\ [][NextOllama]_vars

\* The listing of the models.
SpecModels == InitModels /\ [][NextModels]_vars

\* Several calls of the prompt builder, one after the other.
SpecSession == InitSession /\ [][NextSession]_vars

\* A build and the build from its metadata.
SpecReuse == InitReuse /\ [][NextReuse]_vars

\* The application's buttons.
SpecApp == InitApp /\ [][NextApp]_vars

---------------------------------------------------------------------------
\* The texture catalog as the properties read it.

KnownTexture(k) == \E i \in DOMAIN TEXTURE_LIBRARY : TEXTURE_LIBRARY[i].key = k

TextureEntry(k) == TEXTURE_LIBRARY[CHOOSE i \in DOMAIN TEXTURE_LIBRARY : TEXTURE_LIBRARY[i].key = k]

Desc(k) == TextureEntry(k).description

Cat(k) == TextureEntry(k).category

\* s is in p's compatibility set.
CompatibleWith(p, s) ==
  \E i \in DOMAIN TextureEntry(p).compatible_with : TextureEntry(p).compatible_with[i] = s

\* combine_textures has returned for a known primary p and a known secondary s.
CombinedKnownPair ==
  /\ pc = "done"
  /\ op = "combine_textures"
  /\ KnownTexture(args.primary)
  /\ args.secondary # None
  /\ KnownTexture(args.secondary[1])

C4_IncompatibleIgnored ==
  /\ (pc = "call" /\ op = "combine_textures") => ENABLED CallCombineTextures
  /\ (CombinedKnownPair /\ ~CompatibleWith(args.primary, args.secondary[1])) =>
       ret = Value(Desc(args.primary))

C4_Witness ==
  /\ CombinedKnownPair
  /\ args.primary = "skin_realistic"
  /\ args.secondary = Some("sharp_micro")
  /\ ret.value = Desc("skin_realistic")

\* C5: for a primary key that is not in the library, combine_textures returns
\* "realistic natural texture detail" whatever the secondary is.
C5_UnknownPrimaryFallback ==
  (pc = "done" /\ op = "combine_textures" /\ ~KnownTexture(args.primary)) =>
    ret = Value("realistic natural texture detail")

\* An unknown primary has been combined with a known secondary.
C5_Witness ==
  /\ pc = "done"
  /\ op = "combine_textures"
  /\ args.primary = UnknownTexture
  /\ args.secondary = Some("fabric_detailed")
  /\ ret.value = "realistic natural texture detail"

\* C6: for a known primary p and a secondary that is None, "" or not a key of
\* the library, combine_textures returns p's description unchanged.
C6_AbsentSecondary ==
  (/\ pc = "done"
   /\ op = "combine_textures"
   /\ KnownTexture(args.primary)
   /\ \/ args.secondary = None
      \/ args.secondary = Some("")
      \/ (args.secondary # None /\ ~KnownTexture(args.secondary[1]))) =>
    ret = Value(Desc(args.primary))

\* A known primary has been combined with an unknown secondary key.
C6_Witness ==
  /\ pc = "done"
  /\ op = "combine_textures"
  /\ args.primary = "macro_detail"
  /\ args.secondary = Some(UnknownTexture)
  /\ ret.value = Desc("macro_detail")

\* The result holds both descriptions, joined by one of the two connectives.
IncludesSecondary(r, p, s) ==
  \/ r = Desc(p) \o ", additionally " \o Desc(s)
  \/ r = Desc(p) \o ", complemented by " \o Desc(s)

\* C7: compatibility is directed.  For known p and s, combine_textures(p, s)
\* includes s's description exactly when s is in p's set, whether or not p is
\* in s's set; where s is in p's set and p is not in s's set, combine_textures(p, s)
\* joins both descriptions and combine_textures(s, p) is s's description alone.
C7_DirectedCompatibility ==
  CombinedKnownPair =>
    LET p == args.primary
        s == args.secondary[1]
    IN /\ IncludesSecondary(ret.value, p, s) <=> CompatibleWith(p, s)
       /\ ~CompatibleWith(p, s) => ret.value = Desc(p)
       /\ (CompatibleWith(p, s) /\ ~CompatibleWith(s, p)) =>
            /\ IncludesSecondary(ret.value, p, s)
            /\ combine_textures(s, Some(p)) = Desc(s)

\* A pair of the catalog that is compatible in one direction only.
C7_Witness ==
  /\ CombinedKnownPair
  /\ args.primary = "skin_pores"
  /\ args.secondary = Some("skin_realistic")
  /\ CompatibleWith("skin_pores", "skin_realistic")
  /\ ~CompatibleWith("skin_realistic", "skin_pores")
  /\ IncludesSecondary(ret.value, "skin_pores", "skin_realistic")

\* The place of the library's i-th entry among the entries of its category, and
\* where its category first occurs in the library.
RankInCategory(i) ==
  Cardinality({j \in 1..i : TEXTURE_LIBRARY[j].category = TEXTURE_LIBRARY[i].category})

CategoryStart(i) ==
  CHOOSE j \in 1..i :
    /\ TEXTURE_LIBRARY[j].category = TEXTURE_LIBRARY[i].category
    /\ \A k \in 1..(j - 1) : TEXTURE_LIBRARY[k].category # TEXTURE_LIBRARY[i].category

\* The entries C8 names: the first two of each category but "realism", and
\* every entry of "realism".
Chosen ==
  {i \in DOMAIN TEXTURE_LIBRARY :
     TEXTURE_LIBRARY[i].category = "realism" \/ RankInCategory(i) <= 2}

\* i comes before j: categories in definition order, "realism" last, and the
\* entries of one category in definition order.
Before(i, j) ==
  LET ri == TEXTURE_LIBRARY[i].category = "realism"
      rj == TEXTURE_LIBRARY[j].category = "realism"
  IN \/ ~ri /\ rj
     \/ ri = rj /\ CategoryStart(i) < CategoryStart(j)
     \/ ri = rj /\ CategoryStart(i) = CategoryStart(j) /\ i < j

ChosenInOrder ==
  [n \in 1..Cardinality(Chosen) |->
     Desc(TEXTURE_LIBRARY[
       CHOOSE i \in Chosen : Cardinality({j \in Chosen : Before(j, i)}) = n - 1].key)]

\* C8: get_all_textures_combined returns, joined by ", ", the descriptions of
\* the first two entries of each category but "realism", categories in
\* definition order, then those of every "realism" entry; and every call
\* returns the same.
C8_AllTexturesCombined ==
  (op = "get_all_textures_combined" /\ args.calls > 0) =>
    /\ ret = Value(Join(ChosenInOrder, ", "))
    /\ returned = {ret.value}

\* Called twice: the result starts with the two first "organic" entries, ends
\* with the last "realism" entry, and leaves the third "organic" entry out.
C8_Witness ==
  /\ op = "get_all_textures_combined"
  /\ args.calls >= 2
  /\ StartsWith(ret.value, Desc("skin_realistic") \o ", " \o Desc("skin_pores")
                             \o ", " \o Desc("fabric_detailed"))
  /\ EndsWith(ret.value, Desc("natural_imperfections") \o ", " \o Desc("unretouched_authentic"))
  /\ ~Contains(ret.value, Desc("hair_strands"))

\* The decimal text of the ISO values.
IsoText(iso) ==
  CASE iso = 0 -> "0" [] iso = 50 -> "50" [] iso = 100 -> "100" [] iso = 200 -> "200"
    [] iso = 400 -> "400" [] iso = 800 -> "800" [] iso = 1600 -> "1600"
    [] iso = 3200 -> "3200" [] iso = 6400 -> "6400"

KnownCamera(k) == \E i \in DOMAIN CAMERA_BODIES : CAMERA_BODIES[i].key = k

KnownLens(k) == \E i \in DOMAIN LENS_LIBRARY : LENS_LIBRARY[i].key = k

\* The lens part C9 names.
LensPart(lens, iso) ==
  IF KnownLens(lens)
  THEN LET e == LENS_LIBRARY[CHOOSE i \in DOMAIN LENS_LIBRARY : LENS_LIBRARY[i].key = lens]
       IN "using a " \o e.description \o " at ISO " \o IsoText(iso) \o ", " \o e.characteristics
  ELSE "using a " \o lens \o " lens at ISO " \o IsoText(iso)

\* C9: build_camera_description returns "captured on a {camera} ({sensor})
\* {lens part}" for a known camera and "captured {lens part}" for an unknown
\* one, where the lens part is "using a {description} at ISO {iso},
\* {characteristics}" for a known lens and "using a {lens} lens at ISO {iso}"
\* for an unknown one; and it returns for every input.
C9_CameraDescription ==
  /\ (pc = "call" /\ op = "build_camera_description") => ENABLED CallBuildCameraDescription
  /\ (pc = "done" /\ op = "build_camera_description") =>
       ret = Value(
         IF KnownCamera(args.camera_body)
         THEN "captured on a " \o args.camera_body \o " ("
                \o CAMERA_BODIES[CHOOSE i \in DOMAIN CAMERA_BODIES :
                                   CAMERA_BODIES[i].key = args.camera_body].sensor
                \o ") " \o LensPart(args.lens, args.iso)
         ELSE "captured " \o LensPart(args.lens, args.iso))

\* Both fallbacks at once: an unknown camera with an unknown lens.
C9_Witness ==
  /\ pc = "done"
  /\ op = "build_camera_description"
  /\ args.camera_body = UnknownCamera
  /\ args.lens = UnknownLens
  /\ args.iso = 400
  /\ ret.value = "captured using a 40mm f/2.8 lens at ISO 400"

\* A call of build_prompt, direct or from the form, has ended.
BuildEnded == pc = "done" /\ op \in {"build_prompt", "generate"}

\* C1: for a request whose subject and setting pass validation, build_prompt
\* returns a prompt and metadata and raises nothing, whatever strings are
\* given for the catalog keys.
C1_NeverRaises ==
  (/\ BuildEnded
   /\ validate_input(args.request.subject)
   /\ validate_input(args.request.setting)
   /\ Len(sanitize_text(args.request.subject)) >= MinLength
   /\ Len(sanitize_text(args.request.setting)) >= MinLength) =>
    /\ ret.kind = "value"
    /\ DOMAIN ret.value = {"prompt", "metadata"}

\* C2: a request whose subject or setting is shorter than 3 characters after
\* sanitization is rejected with a validation error, and no prompt or metadata
\* is produced for it.
C2_ShortAfterSanitizationRejected ==
  (/\ pc = "done"
   /\ op = "generate"
   /\ \/ Len(sanitize_text(args.request.subject)) < MinLength
      \/ Len(sanitize_text(args.request.setting)) < MinLength) =>
    /\ ret.kind = "error"
    /\ prompt_history = <<>>

\* The anchor C10 names for a realism mode key.
AnchorOf(k) ==
  LET known == {i \in DOMAIN REALISM_ANCHORS : REALISM_ANCHORS[i].key = k}
  IN IF known # {} THEN REALISM_ANCHORS[CHOOSE i \in known : TRUE].value
     ELSE REALISM_ANCHORS[CHOOSE i \in DOMAIN REALISM_ANCHORS :
                            REALISM_ANCHORS[i].key = "standard"].value

\* Where the "Avoid:" paragraph of a prompt starts: its first blank line.
AvoidStart(prompt) ==
  CHOOSE k \in 1..Len(prompt) :
    /\ SubSeq(prompt, k, k + 8) = "\n\nAvoid: "
    /\ \A j \in 1..(k - 1) : SubSeq(prompt, j, j + 1) # "\n\n"

\* The aspect-ratio sentence of a request whose aspect ratio is a key.
RatioSentence(r) ==
  "Image format: "
    \o ASPECT_RATIO[CHOOSE i \in DOMAIN ASPECT_RATIO : ASPECT_RATIO[i].key = r.aspect_ratio].value
    \o " aspect ratio."

\* C10: the prompt holds, right after the aspect-ratio sentence and right
\* before the "Avoid:" paragraph, the anchor of the request's realism mode, and
\* the "standard" anchor when the realism mode is no key of REALISM_ANCHORS.
C10_RealismAnchor ==
  (BuildEnded /\ ret.kind = "value") =>
    LET prompt == ret.value.prompt IN
    /\ Contains(prompt, "\n\nAvoid: ")
    /\ EndsWith(SubSeq(prompt, 1, AvoidStart(prompt) - 1),
                RatioSentence(args.request) \o " " \o AnchorOf(args.request.realism_mode))

\* A prompt built for a realism mode that is no key: it holds the "standard"
\* anchor.
C10_Witness ==
  /\ BuildEnded
  /\ ret.kind = "value"
  /\ args.request.realism_mode = UnknownKey
  /\ Contains(ret.value.prompt,
              "aspect ratio. This should look like an authentic photograph taken with a professional DSLR camera, with natural lighting physics, realistic material properties, and lifelike detail.\n\nAvoid: plastic skin")

---------------------------------------------------------------------------
\* The text functions.

\* The characters of s from lo to hi hold none of the characters in cs.
HoldsNone(s, lo, hi, cs) == \A i \in lo..hi : SubSeq(s, i, i) \notin cs

\* C11: what sanitize_text returns holds no double quote, '<', '>' or ';' and
\* is at most 500 characters long; a text longer than 500 characters is cut to
\* its first 500 characters.
C11_SanitizedText ==
  (pc = "done" /\ op = "sanitize_text") =>
    /\ HoldsNone(ret.value, 1, Len(ret.value), {"\"", "<", ">", ";"})
    /\ Len(ret.value) <= 500
    /\ (/\ Len(args.text) > 500
        /\ HoldsNone(args.text, 1, 500, {"\"", "<", ">", ";"})
        /\ HoldsNone(args.text, 1, 1, {" ", "\t", "\n", "\r"})
        /\ HoldsNone(args.text, 500, 500, {" ", "\t", "\n", "\r"}))
         => ret.value = SubSeq(args.text, 1, 500)

\* A text of 501 letters, cut to 500.
C11_Witness ==
  /\ pc = "done"
  /\ op = "sanitize_text"
  /\ Len(args.text) = 501
  /\ Len(ret.value) = 500
  /\ ret.value \o "a" = args.text

\* The places of s that hold a character other than whitespace.
Ink(s) == {i \in 1..Len(s) : SubSeq(s, i, i) \notin {" ", "\t", "\n", "\r", "\f"}}

\* The length of s without the whitespace around it.
TrimmedLength(s) ==
  IF Ink(s) = {} THEN 0
  ELSE (CHOOSE i \in Ink(s) : \A j \in Ink(s) : j <= i)
         - (CHOOSE i \in Ink(s) : \A j \in Ink(s) : i <= j) + 1

\* A text validate_input is to accept.
LongEnough(s) == s # "" /\ TrimmedLength(s) >= 3

\* C12: validate_input accepts a text exactly when it is not empty and has at
\* least 3 characters without the whitespace around it; the generate action
\* rejects a subject that is too short, then a setting that is too short, and
\* builds no prompt for either; it rejects nothing else.
C12_Validation ==
  (pc = "done" /\ op = "generate") =>
    LET r == args.request IN
    /\ validate_input(r.subject) = LongEnough(r.subject)
    /\ validate_input(r.setting) = LongEnough(r.setting)
    /\ ~LongEnough(r.subject) =>
         ret = [kind |-> "error", field |-> "subject"] /\ prompt_history = <<>>
    /\ (LongEnough(r.subject) /\ ~LongEnough(r.setting)) =>
         ret = [kind |-> "error", field |-> "setting"] /\ prompt_history = <<>>
    /\ (LongEnough(r.subject) /\ LongEnough(r.setting)) => ret.kind \in {"value", "raise"}

\* A subject of six characters, two without the whitespace around it, and a
\* setting of two: the subject is the one rejected.
C12_Witness ==
  /\ pc = "done"
  /\ op = "generate"
  /\ args.request.subject = "  ab  "
  /\ args.request.setting = "ab"
  /\ ret = [kind |-> "error", field |-> "subject"]
  /\ prompt_history = <<>>

---------------------------------------------------------------------------
\* The prompt and the metadata.

\* The text a catalog holds for a key of its.
ValueOf(d, k) == d[CHOOSE i \in DOMAIN d : d[i].key = k].value

\* s without the full stops at its end.
RECURSIVE NoFinalDots(_)
NoFinalDots(s) ==
  IF s # "" /\ SubSeq(s, Len(s), Len(s)) = "." THEN NoFinalDots(SubSeq(s, 1, Len(s) - 1))
  ELSE s

\* The lighting sentence, the mood and color sentence and the start of the
\* camera sentence for catalog keys.
LightingSentence(lighting) ==
  "The scene is illuminated by " \o ValueOf(LIGHTING, lighting) \o "."

MoodColorSentence(mood, color) ==
  NoFinalDots(ValueOf(MOOD, mood)) \o " " \o ValueOf(COLOR, color) \o "."

CameraClause(camera_body, lens, iso) ==
  "The image is " \o build_camera_description(camera_body, lens, iso) \o ", "

\* C13: with randomize set, a call whose aspect ratio, composition and quality
\* are keys returns a prompt; the lighting, mood, color and lens of its
\* metadata are keys of their catalogs, whatever the caller gave, and the
\* lighting sentence, the mood and color sentence and the camera clause of the
\* prompt are those of the metadata's values.
C13_Randomized ==
  (/\ BuildEnded
   /\ args.request.randomize
   /\ args.request.aspect_ratio \in Keys(ASPECT_RATIO)
   /\ args.request.composition \in Keys(COMPOSITION)
   /\ args.request.quality \in Keys(QUALITY)) =>
    /\ ret.kind = "value"
    /\ LET m == ret.value.metadata
           prompt == ret.value.prompt
       IN /\ m.randomized
          /\ m.lighting \in Keys(LIGHTING)
          /\ m.mood \in Keys(MOOD)
          /\ m.color \in Keys(COLOR)
          /\ m.lens \in Keys(LENS_LIBRARY)
          /\ Contains(prompt, LightingSentence(m.lighting))
          /\ Contains(prompt, MoodColorSentence(m.mood, m.color))
          /\ Contains(prompt, CameraClause(args.request.camera_body, m.lens, args.request.iso))

\* A randomized call given a lighting, a mood, a color and a lens that are no
\* keys: the "Butterfly" lighting is drawn, and the prompt and metadata have it.
C13_Witness ==
  /\ BuildEnded
  /\ args.request.randomize
  /\ args.request.lighting = UnknownKey
  /\ args.request.lens = UnknownKey
  /\ ret.kind = "value"
  /\ ret.value.metadata.lighting = "Butterfly"
  /\ ret.value.metadata.lens \in Keys(LENS_LIBRARY)
  /\ Contains(ret.value.prompt,
              "The scene is illuminated by butterfly lighting from above creating symmetrical shadow under nose.")

\* The texture phrase C14 names for a request.
TexturePhrase(r) ==
  CASE r.texture_mode = "all_combined" -> get_all_textures_combined
    [] /\ r.texture_mode = "primary_secondary"
       /\ r.texture_secondary # None
       /\ r.texture_secondary # Some("") ->
         combine_textures(r.texture_primary, r.texture_secondary)
    [] OTHER -> combine_textures(r.texture_primary, None)

\* The quality and texture sentence with a given texture phrase.
QualitySentence(r, phrase) ==
  "The photograph is " \o ValueOf(QUALITY, r.quality) \o ", " \o phrase \o "."

\* C14: the quality sentence of a prompt ends with the texture phrase of the
\* request's texture mode: that of all textures in the all_combined mode,
\* combine_textures(primary, secondary) in the primary_secondary mode with a
\* secondary that is not empty, and combine_textures(primary) otherwise.
C14_TextureMode ==
  (BuildEnded /\ ret.kind = "value") =>
    Contains(ret.value.prompt, QualitySentence(args.request, TexturePhrase(args.request)))

\* A request in the single mode with a secondary texture compatible with its
\* primary: the quality sentence ends with the primary's description.
C14_Witness ==
  /\ BuildEnded
  /\ ret.kind = "value"
  /\ args.request.texture_mode = "single"
  /\ args.request.texture_primary = "skin_realistic"
  /\ args.request.texture_secondary = Some("fabric_detailed")
  /\ Contains(ret.value.prompt,
              "8K detail, natural skin texture with visible pores, fine lines, and individual hair strands. Creating")

\* The opening sentence and the camera and composition sentence.
OpeningSentence(r) ==
  "A photorealistic " \o Lower(r.mode) \o " photograph of " \o sanitize_text(r.subject)
    \o ", set in " \o sanitize_text(r.setting) \o "."

CameraSentence(r, lens) ==
  CameraClause(r.camera_body, lens, r.iso) \o ValueOf(COMPOSITION, r.composition) \o "."

\* The sentences of a prompt in the order C15 names, for the request r and the
\* metadata m of its build, each with its spacing and punctuation cleaned up,
\* and the realism anchor after them.
SentencesInOrder(r, m) ==
  << grammar_cleanup(OpeningSentence(r)),
     grammar_cleanup(LightingSentence(m.lighting)),
     grammar_cleanup(CameraSentence(r, m.lens)),
     grammar_cleanup(QualitySentence(r, TexturePhrase(r))),
     grammar_cleanup(MoodColorSentence(m.mood, m.color)),
     grammar_cleanup(RatioSentence(r)),
     AnchorOf(r.realism_mode) >>

\* s1, a space, s2, a space, and so on.
RECURSIVE SpaceJoined(_)
SpaceJoined(sentences) ==
  IF Len(sentences) = 1 THEN sentences[1]
  ELSE sentences[1] \o " " \o SpaceJoined(Tail(sentences))

\* C15: every prompt built is the opening sentence, the lighting sentence, the
\* camera and composition sentence, the quality and texture sentence, the mood
\* and color sentence, the aspect-ratio sentence and the realism anchor, in
\* this order with one space between them, and then the "Avoid:" paragraph.
C15_FixedOrder ==
  (BuildEnded /\ ret.kind = "value") =>
    LET prompt == ret.value.prompt IN
    /\ Contains(prompt, "\n\nAvoid: ")
    /\ SubSeq(prompt, 1, AvoidStart(prompt) - 1)
         = SpaceJoined(SentencesInOrder(args.request, ret.value.metadata))

\* The prompt of the example request: each sentence is followed by the next.
C15_Witness ==
  /\ BuildEnded
  /\ ret.kind = "value"
  /\ args.request = BaseRequest
  /\ StartsWith(ret.value.prompt, "A photorealistic portrait photograph of a woman in a red coat, set in a rainy city street. The scene is illuminated by golden hour")
  /\ Contains(ret.value.prompt, "bounce light. The image is captured on a Canon")
  /\ Contains(ret.value.prompt, "visual interest. The photograph is ultra-realistic")
  /\ Contains(ret.value.prompt, "material reflectance. Creating an intimate")
  /\ Contains(ret.value.prompt, "throughout. Image format: 2:3 aspect ratio. Render as authentic photography")
  /\ Contains(ret.value.prompt, "real camera sensor.\n\nAvoid: plastic skin")

\* The default negative terms, comma-joined.
DefaultTerms ==
  "plastic skin, airbrushed, CGI, 3D render, digital painting, artificial smoothing, unrealistic textures, synthetic appearance, overly smooth skin, fake materials"

\* C16: every prompt ends with a paragraph, started by its first blank line,
\* that is "Avoid: " and the default terms; when the negative text of the
\* request is not empty and not only whitespace, the sanitized negative text
\* and a comma come before the default terms.
C16_AvoidParagraph ==
  (BuildEnded /\ ret.kind = "value") =>
    LET prompt == ret.value.prompt
        negative == args.request.negative
    IN /\ Contains(prompt, "\n\nAvoid: ")
       /\ SubSeq(prompt, AvoidStart(prompt), Len(prompt))
            = "\n\nAvoid: "
                \o (IF TrimmedLength(negative) = 0 THEN ""
                    ELSE sanitize_text(negative) \o ", ")
                \o DefaultTerms

\* A prompt built with a negative text: the text comes first, then the
\* default terms.
C16_Witness ==
  /\ BuildEnded
  /\ ret.kind = "value"
  /\ args.request.negative = "blur;\"glare\""
  /\ EndsWith(ret.value.prompt,
              "real camera sensor.\n\nAvoid: blurglare, plastic skin, airbrushed, CGI, 3D render, digital painting, artificial smoothing, unrealistic textures, synthetic appearance, overly smooth skin, fake materials")

\* The selection arguments of build_prompt and its free-text arguments.
SelectionFields ==
  {"mode", "camera_body", "lens", "iso", "lighting", "composition", "texture_primary",
   "texture_secondary", "texture_mode", "quality", "mood", "color", "aspect_ratio",
   "realism_mode"}

FreeTextFields == {"subject", "setting", "negative"}

\* C17: the metadata returned with a prompt holds every selection field and
\* every free-text input of the request, a timestamp and the version "4.1.0".
C17_MetadataCapturesInputs ==
  (BuildEnded /\ ret.kind = "value") =>
    LET m == ret.value.metadata IN
    /\ SelectionFields \cup FreeTextFields \cup {"timestamp", "version"} \subseteq DOMAIN m
    /\ m.version = "4.1.0"
    /\ m.timestamp = args.now

RECURSIVE LastLine(_)
LastLine(s) ==
  IF \E i \in 1..Len(s) : SubSeq(s, i, i) = "\n"
  THEN LastLine(SubSeq(s, (CHOOSE i \in 1..Len(s) : SubSeq(s, i, i) = "\n") + 1, Len(s)))
  ELSE s

\* C19: the prompt of the example request (a woman in a red coat, Canon EOS R5
\* Mark II, 85mm f/1.4, strict_no_cgi, no negative text) opens with its
\* opening sentence, holds the camera clause of that body and lens and the
\* strict_no_cgi anchor word for word, and its last line starts with "Avoid:"
\* and holds "plastic skin".
C19_EndToEndExample ==
  (BuildEnded /\ args.request = BaseRequest) =>
    /\ ret.kind = "value"
    /\ StartsWith(ret.value.prompt,
                  "A photorealistic portrait photograph of a woman in a red coat, set in a rainy city street.")
    /\ Contains(ret.value.prompt,
                "captured on a Canon EOS R5 Mark II (Full-frame 45MP) using a professional 85mm f/1.4 portrait lens at ISO 100")
    /\ Contains(ret.value.prompt,
                "Render as authentic photography with zero CGI, plastic, or airbrushed effects. Maintain natural skin texture, visible pores, real fabric weave, and organic imperfections. Avoid any artificial smoothing, digital retouching, or computer-generated appearance. This must look like it was captured with a real camera sensor.")
    /\ StartsWith(LastLine(ret.value.prompt), "Avoid:")
    /\ Contains(LastLine(ret.value.prompt), "plastic skin")

\* The example request generated from the form at the second reading of the
\* clock: its prompt is in the history.
C19_Witness ==
  /\ pc = "done"
  /\ op = "generate"
  /\ args.request = BaseRequest
  /\ args.now = 1
  /\ Len(prompt_history) = 1
  /\ Len(prompt_history[1].prompt) > 1000
  /\ prompt_history[1].metadata.lens = "85mm f/1.4"

---------------------------------------------------------------------------
\* The enhancement client.

\* The endpoint answered the last request with a success status and a JSON
\* object whose "response" is a string that is not empty or only whitespace.
AnsweredWithResponse ==
  /\ reply.kind = "response"
  /\ reply.status \in 200..299
  /\ reply.body.type = "object"
  /\ reply.body.response # None
  /\ reply.body.response[1].type = "string"
  /\ TrimmedLength(reply.body.response[1].text) > 0

\* s is t without the whitespace around it.
IsTrimmed(s, t) ==
  /\ Len(s) = TrimmedLength(t)
  /\ \E i \in 1..Len(t) : SubSeq(t, i, i + Len(s) - 1) = s
  /\ TrimmedLength(s) = Len(s)

C21_EmptyModel ==
  (op = "enhance_prompt" /\ args.model = "") =>
    /\ requests_sent = <<>>
    /\ reply = NoReply
    /\ pc \in {"call", "done"}
    /\ pc = "done" => ret = Value(<<args.prompt, FALSE>>)

\* A call with an empty model and the strict mode has returned.
C21_Witness ==
  /\ op = "enhance_prompt"
  /\ args.model = ""
  /\ args.mode = "strict"
  /\ args.prompt # ""
  /\ pc = "done"
  /\ ret = Value(<<args.prompt, FALSE>>)
  /\ requests_sent = <<>>

---------------------------------------------------------------------------
\* The listing of the models.

\* The last answer lists models, each with a name: with the status 200 when
\* it answers requests.get, and at least one model then.
ListsModels ==
  /\ reply.kind = "response"
  /\ reply.status = 200
  /\ reply.body.type = "object"
  /\ reply.body.models # None
  /\ reply.body.models[1].type = "list"
  /\ \A i \in DOMAIN reply.body.models[1].items : reply.body.models[1].items[i].name # None
  /\ Len(requests_sent) = 1 /\ op = "get_available_models" =>
       reply.body.models[1].items # <<>>

\* The names the last answer lists, as a bag.
ListedNames ==
  LET items == reply.body.models[1].items
  IN [x \in {items[i].name[1] : i \in DOMAIN items} |->
        Cardinality({i \in DOMAIN items : items[i].name[1] = x})]

\* l as a bag.
BagOf(l) ==
  [x \in {l[i] : i \in DOMAIN l} |-> Cardinality({i \in DOMAIN l : l[i] = x})]

\* No name of l comes after a name that is greater.
InOrder(l) == \A i, j \in DOMAIN l : i < j => ~StrLess(l[j], l[i])

C23_EveryCallCarriesTimeout ==
  \A i \in DOMAIN requests_sent :
    requests_sent[i].timeout = (IF op = "enhance_prompt" THEN Some(60) ELSE Some(5))

---------------------------------------------------------------------------
\* grammar_cleanup.

WhiteAt(s, i) == SubSeq(s, i, i) \in {" ", "\t", "\n", "\r", "\f"}

MarkAt(s, i) == SubSeq(s, i, i) \in {".", ",", "!", "?", ";", ":"}

LetterAt(s, i) == SubSeq(s, i, i) \in LetterChars

DigitAt(s, i) == SubSeq(s, i, i) \in {"0", "1", "2", "3", "4", "5", "6", "7", "8", "9"}

\* No two whitespace characters of s are next to each other, and none stands
\* right before a punctuation mark.
SpacingClean(s) ==
  \A i \in 1..(Len(s) - 1) :
    WhiteAt(s, i) => ~WhiteAt(s, i + 1) /\ ~MarkAt(s, i + 1)

\* C24 as stated: in what grammar_cleanup returns no two whitespace
\* characters are next to each other, none stands before a punctuation mark,
\* and a punctuation mark with a word (letters or digits) after it has exactly
\* one space between itself and the word.
C24_OneSpaceAfterEveryMark ==
  (pc = "done" /\ op = "grammar_cleanup") =>
    /\ SpacingClean(ret.value)
    /\ \A i \in 1..(Len(ret.value) - 1) :
         MarkAt(ret.value, i) =>
           /\ ~LetterAt(ret.value, i + 1)
           /\ ~DigitAt(ret.value, i + 1)
           /\ WhiteAt(ret.value, i + 1) => SubSeq(ret.value, i + 1, i + 1) = " "

\* C24, amended: in what grammar_cleanup returns no two whitespace characters
\* are next to each other, none stands before a punctuation mark, and no
\* letter (A-Z, a-z) stands right after a punctuation mark: a letter that
\* followed one in the text given is one space away from it.
C24_CleanedText ==
  (pc = "done" /\ op = "grammar_cleanup") =>
    /\ SpacingClean(ret.value)
    /\ \A i \in 1..(Len(ret.value) - 1) :
         MarkAt(ret.value, i) => ~LetterAt(ret.value, i + 1)
    /\ \A i \in 1..(Len(args.text) - 1) :
         (MarkAt(args.text, i) /\ LetterAt(args.text, i + 1)) =>
           Contains(ret.value, SubSeq(args.text, i, i) \o " " \o SubSeq(args.text, i + 1, i + 1))

\* A text with whitespace before marks and letters right after them, cleaned.
C24_Witness ==
  /\ pc = "done"
  /\ op = "grammar_cleanup"
  /\ args.text = "Hello ,world .Next:one"
  /\ ret.value = "Hello, world. Next: one"

---------------------------------------------------------------------------
\* The history of the application.

\* C25 as stated: whatever buttons were pressed, the history holds the result
\* of every successful generation, in the order they were made, and nothing
\* else: it gained one entry per successful generation, none otherwise, and
\* lost or reordered none.
C25_HistoryOnlyAppended ==
  op = "app" =>
    /\ Len(prompt_history) = Cardinality(returned)
    /\ \A g \in returned : prompt_history[g.n] = g.result

---------------------------------------------------------------------------
\* The presets.

\* C26 as stated: the secondary texture of every preset is compatible with
\* its primary texture, and the prompt built from a preset in the
\* primary_secondary mode holds the descriptions of both textures.
C26_PresetTexturesBothDescribed ==
  (pc = "done" /\ op = "build_prompt" /\ args.request \in PresetRequests) =>
    /\ InList(args.request.texture_secondary[1],
              get_compatible_textures(args.request.texture_primary))
    /\ ret.kind = "value"
    /\ Contains(ret.value.prompt, Desc(args.request.texture_primary))
    /\ Contains(ret.value.prompt, Desc(args.request.texture_secondary[1]))

---------------------------------------------------------------------------
\* The metadata as the settings of another build.

\* The selections of a request that are keys of a catalog.
ValidSelections(r) ==
  /\ HasKey(CAMERA_BODIES, r.camera_body)
  /\ HasKey(LENS_LIBRARY, r.lens)
  /\ HasKey(LIGHTING, r.lighting)
  /\ HasKey(COMPOSITION, r.composition)
  /\ HasKey(TEXTURE_LIBRARY, r.texture_primary)
  /\ r.texture_secondary # None => HasKey(TEXTURE_LIBRARY, r.texture_secondary[1])
  /\ r.texture_mode \in {"single", "primary_secondary", "all_combined"}
  /\ HasKey(QUALITY, r.quality)
  /\ HasKey(MOOD, r.mood)
  /\ HasKey(COLOR, r.color)
  /\ HasKey(ASPECT_RATIO, r.aspect_ratio)
  /\ HasKey(REALISM_ANCHORS, r.realism_mode)

\* C27 as stated: after a successful build from valid catalog keys, every
\* selection its metadata recorded is a key of its catalog, and the build
\* from those selections with the same texts and randomize off succeeds and
\* gives the same prompt.
C27_MetadataRoundTrip ==
  (pc = "done" /\ op = "reuse" /\ ValidSelections(args.request)) =>
    \A first \in returned :
      /\ ValidSelections(RebuiltRequest(args.request, first.metadata))
      /\ ret.kind = "value"
      /\ ret.value.prompt = first.prompt

---------------------------------------------------------------------------
\* The terms of the "Avoid:" list.

\* What follows "Avoid: " in the prompt.
AvoidList(prompt) == SubSeq(prompt, AvoidStart(prompt) + 9, Len(prompt))

\* Split at its commas, the text a has a term that is empty or blank.
HasEmptyTerm(a) ==
  LET ink == Ink(a)
      commas == {i \in ink : SubSeq(a, i, i) = ","}
  IN \/ ink = {}
     \/ \E i \in commas :
          \/ \A k \in ink : i <= k
          \/ \A k \in ink : k <= i
          \/ \E j \in commas : i < j /\ \A k \in ink : ~(i < k /\ k < j)

\* C28 as stated: when a negative text that is not blank is given, the list
\* after "Avoid: " does not start with a comma and none of its
\* comma-separated terms is empty, also when sanitization removes every
\* character of the negative text.
C28_NoEmptyAvoidTerm ==
  (BuildEnded /\ ret.kind = "value" /\ TrimmedLength(args.request.negative) > 0) =>
    /\ Contains(ret.value.prompt, "\n\nAvoid: ")
    /\ ~StartsWith(AvoidList(ret.value.prompt), ",")
    /\ ~HasEmptyTerm(AvoidList(ret.value.prompt))

---------------------------------------------------------------------------
\* The user's text in the opening sentence.

\* C29 as stated: when the subject and the setting pass validation, before
\* and after sanitization, and a mode is given, the prompt starts with the
\* opening sentence made of the lower-cased mode and the sanitized subject
\* and setting, character for character.
C29_OpeningKeepsUserText ==
  (/\ BuildEnded
   /\ ret.kind = "value"
   /\ args.request.mode # ""
   /\ validate_input(args.request.subject)
   /\ validate_input(args.request.setting)
   /\ validate_input(sanitize_text(args.request.subject))
   /\ validate_input(sanitize_text(args.request.setting))) =>
    StartsWith(ret.value.prompt, OpeningSentence(args.request))

============================================================================
